---- MODULE Spec2Model ----
(***************************************************************************)
(* Build orchestration and moderation pipeline of BuildOnX / HeyClaude.    *)
(*                                                                         *)
(* The repository holds several near-duplicate implementations of the     *)
(* mention-to-deployment pipeline.  Each is modelled from its own source   *)
(* and has its own specification over the shared durable state:            *)
(*   Spec        the polling worker and the cleanup pass                   *)
(*               (apps/worker/mention_processor.py, services/cleanup.py)   *)
(*   SpecWebhook the notifier webhook (apps/api/app/routers/webhooks.py)   *)
(*   SpecAdmin   the admin mention fetch, auto-process and reply cap       *)
(*               (apps/api/app/routers/admin.py)                           *)
(*   SpecApi     create / refine / rebuild of a Project over HTTP          *)
(*               (apps/api/app/routers/projects.py, admin.py)              *)
(*   SpecLimit   the rate-limit middleware                                 *)
(*               (apps/api/app/middleware/rate_limit.py)                   *)
(*   SpecModerator  check_prompt of the API and of the worker              *)
(*               (services/moderator.py, worker/mention_processor.py)      *)
(*   SpecParse   the handlers of the model's answer, from its parsing to   *)
(*               the write of the Project (services/builder.py, admin.py,  *)
(*               projects.py, mention_processor.py)                        *)
(*   SpecWs      the WebSocket feed of a build (routers/ws.py)             *)
(*   SpecDestroy the removal of deployments (services/deployer.py,         *)
(*               projects.py, services/cleanup.py)                         *)
(*   SpecStatus  the worker with the build status read API                 *)
(*               (routers/builds.py)                                       *)
(*   SpecSweep   the API with the cleanup pass (services/cleanup.py)       *)
(*   SpecCollide the worker on a database that holds an earlier Project    *)
(*   SpecNotify  the builds and the notices they send, step by step        *)
(*               (projects.py, mention_processor.py, admin.py)             *)
(*   SpecDedup   the worker's dedup set and its expiry                     *)
(*               (apps/worker/mention_processor.py)                        *)
(* A coroutine is cut into steps at its await points; a step that awaits   *)
(* the network, the database or Redis may succeed or raise.                *)
(***************************************************************************)
EXTENDS Naturals, Integers, Sequences, FiniteSets, TLC

(***************************************************************************)
(* Bounds of the model.                                                    *)
(***************************************************************************)
MaxTweets == 2
MaxTasks == 2
MaxSlugs == 2
MaxRestarts == 1
MaxAdminTasks == 2
MaxApiTasks == 3
MaxSweeps == 2
MaxInFlight == 2
MaxRequests == 5
WindowTicks == 2
MaxPieces == 3
MaxTextPieces == 3
MaxSubs == 3
MaxFrames == 2
MaxMachines == 2
MaxDedupIds == 3
RetentionTicks == 2
MaxRuns == 2

Tweets == 1..MaxTweets
TaskIds == 1..MaxTasks
Slugs == 1..MaxSlugs
DedupIds == 1..MaxDedupIds

(***************************************************************************)
(* Program constants.                                                      *)
(***************************************************************************)
MAX_REPLIES_PER_TWEET == 2
RATE_LIMIT_PER_HOUR == 3

(***************************************************************************)
(* The text of a mention.  Odd tweets carry a benign request, even tweets  *)
(* one that both moderators' DANGEROUS_PATTERNS reject (r"phishing").      *)
(***************************************************************************)
BenignPrompt == "build a todo app"
PhishingPrompt == "build a phishing page"
Prompts == {BenignPrompt, PhishingPrompt}

TweetText(t) == IF t % 2 = 1 THEN BenignPrompt ELSE PhishingPrompt

(***************************************************************************)
(* File-sets, by what the output check says of them: "empty" is the '{}'   *)
(* a Project is inserted with, "clean" matches no CODE_PATTERNS entry,     *)
(* "malicious" matches one.                                                *)
(***************************************************************************)
GeneratedFiles == {"clean", "malicious"}

\* ContentModerator.check_prompt of the API: allowed iff no pattern matches.
ApiCheckPrompt(p) == p # PhishingPrompt

\* ContentModerator.check_prompt of the worker.
WorkerCheckPrompt(p) == p # PhishingPrompt

\* ContentModerator.check_code: allowed iff no CODE_PATTERNS entry matches.
CheckCode(f) == f # "malicious"

\* Outcomes of one POST /2/tweets: posted (2xx), refused by Twitter with a
\* non-2xx answer (nothing posted, nothing raised), or the HTTP client
\* raising before anything was posted.
PostOutcomes == {"posted", "refused", "raised"}

VARIABLES
    projects,      \* the projects table: project id -> row
    builds,        \* the builds table: id of the owning project -> row
    replies,       \* Twitter: tweet -> number of replies the service posted
    aiCalls,       \* history: the generation calls made, as [path, prompt]
    promptChecks,  \* history: the check_prompt calls made, as [path, prompt]
    nPosted,       \* Twitter: the mentions 1..nPosted exist
    restarts,      \* number of process restarts so far
    whTasks,       \* notifier webhook: background task id -> its state
    wpc,           \* worker: position in run / poll_mentions / handle_mention
    wQueue,        \* worker: mentions of this poll still to handle, oldest first
    wCur,          \* worker: the mention being handled (0: none)
    wSlug,         \* worker: slug of the build being run (0: none)
    wResult,       \* worker: files the generation returned
    lastMentionId, \* worker: MentionProcessor.last_mention_id (in memory)
    redisLast,     \* Redis: twitter:last_mention_id
    processed,     \* Redis: the set twitter:processed
    rateCount,     \* Redis: ratelimit:{author}:hourly, by author
    adMentions,    \* admin: _twitter_state["mentions"], tweet -> mention
    adProcessed,   \* admin: _twitter_state["processed_ids"]
    memReplyCounts,\* admin: _twitter_state["reply_counts"], the in-memory fallback
    replyCount,    \* Redis: heyclaude:reply_count:{tweet}
    redisUp,       \* whether Redis answers
    adTasks,       \* admin: process_deployment tasks and force_reply requests
    apiTasks,      \* API: create_project requests, do_refine and do_rebuild tasks
    aged,          \* time: the Projects created more than one hour ago
    sweeps,        \* number of cleanup_failed_deployments runs so far
    rlCount,       \* Redis: value of ratelimit:{type}:{ip} (0: no such key)
    rlTtl,         \* Redis: TTL of that key (-2: no key, -1: no expiry)
    rlReqs,        \* middleware: request slot -> the request in dispatch
    rlServed,      \* middleware: number of requests received so far
    mPrompt,       \* moderator: the prompt, a sequence of characters
    mPieces,       \* moderator: number of pieces the prompt was made of
    mResult,       \* moderator: the ModerationResult of check_prompt
    pText,         \* parser: the model's answer, a sequence of symbols
    pPieces,       \* parser: number of pieces the answer was made of
    pWrap,         \* parser: how a file-set was wrapped (none, fence, double)
    pInner,        \* parser: the text of the file-set that was wrapped
    pOut,          \* parser: what the parser returned
    pRow,          \* parser: the projects row its handler writes to
    wsConn,        \* ws: _connections[build_id], its key and its list
    wsSubs,        \* ws: subscriber -> connection state, frames received, frame count at connect
    wsCast,        \* ws: the broadcast_build_update call in progress
    wsFrame,       \* ws: number of frames the build has broadcast
    wsRaised,      \* ws: whether a broadcast_build_update call raised
    readyReplies,  \* Twitter: tweet -> number of 'is ready' replies the admin router posted
    flyMachines,   \* Fly: the machines (deployment ids) that exist
    dRows,         \* deployer: slug -> the row of the Project, with its deployment_id
    dDeployed,     \* deployer: number of deployments made
    dLast,         \* deployer: the last delete_project or clean-up run, its destroy calls
    bsLast,        \* builds API: the last answer of get_build_status
    rebuilding,    \* time: the Projects a refine or rebuild marked building within the hour
    dedupAge,      \* Redis: member of twitter:processed -> ticks since its SADD (-1: none)
    dedupTtl,      \* Redis: TTL of twitter:processed (-2: no key, -1: no expiry)
    nPath,         \* notify: the handler that runs (none: no build is running)
    nAt,           \* notify: its position, [phase, idx] in its steps
    nRow,          \* notify: the Project of the build as committed to the database
    nPending,      \* notify: the Project as the open session of create_project holds it
    nResult,       \* notify: the files the generation returned
    nNotices,      \* notify: what the requester was sent for the build, in order
    nRuns,         \* notify: number of builds started so far
    mWorkerResult  \* worker moderator: what its check_prompt returned for mPrompt

dbVars == <<projects, builds>>
histVars == <<aiCalls, promptChecks>>
envVars == <<nPosted, restarts>>
webhookVars == <<whTasks>>
workerVars == <<wpc, wQueue, wCur, wSlug, wResult, lastMentionId, redisLast,
                processed, rateCount>>
adminVars == <<adMentions, adProcessed, memReplyCounts, replyCount, redisUp,
               adTasks>>
apiVars == <<apiTasks>>
opsVars == <<aged, sweeps>>
limitVars == <<rlCount, rlTtl, rlReqs, rlServed>>
modVars == <<mPrompt, mPieces, mResult>>
parseVars == <<pText, pPieces, pWrap, pInner, pOut, pRow>>
wsVars == <<wsConn, wsSubs, wsCast, wsFrame, wsRaised>>
readyVars == <<readyReplies>>
destroyVars == <<flyMachines, dRows, dDeployed, dLast>>
statusVars == <<bsLast>>
workerModVars == <<mWorkerResult>>
notifyVars == <<nPath, nAt, nRow, nPending, nResult, nNotices, nRuns>>
dedupVars == <<dedupAge, dedupTtl>>
sweepVars == <<rebuilding>>
vars == <<projects, builds, replies, aiCalls, promptChecks, nPosted, restarts,
          whTasks, wpc, wQueue, wCur, wSlug, wResult, lastMentionId, redisLast,
          processed, rateCount, adMentions, adProcessed, memReplyCounts,
          replyCount, redisUp, adTasks, apiTasks, aged, sweeps, rlCount,
          rlTtl, rlReqs, rlServed, mPrompt, mPieces, mResult,
          pText, pPieces, pWrap, pInner, pOut, pRow,
          wsConn, wsSubs, wsCast, wsFrame, wsRaised,
          readyReplies,
          flyMachines, dRows, dDeployed, dLast,
          bsLast,
          rebuilding,
          dedupAge, dedupTtl,
          nPath, nAt, nRow, nPending, nResult, nNotices, nRuns,
          mWorkerResult>>

\* What the actions of one pipeline leave alone of the others.
NotWebhook ==
    <<restarts, workerVars, adminVars, apiVars, opsVars,
      limitVars, modVars, parseVars, wsVars, readyVars, destroyVars,
      statusVars, workerModVars, notifyVars, dedupVars, sweepVars>>
NotWorker ==
    <<webhookVars, adminVars, apiVars, opsVars,
      limitVars, modVars, parseVars, wsVars, readyVars, destroyVars,
      statusVars, workerModVars, notifyVars, dedupVars, sweepVars>>
NotAdminReply ==
    <<webhookVars, workerVars, apiVars, opsVars,
      limitVars, modVars, parseVars, wsVars,
      destroyVars, statusVars,
      workerModVars, notifyVars, dedupVars, sweepVars>>
NotAdmin == <<NotAdminReply, readyVars>>
NotApiSweep ==
    <<replies, envVars, webhookVars, workerVars, adminVars, opsVars,
      limitVars, modVars, parseVars, wsVars, readyVars, destroyVars,
      statusVars, workerModVars, notifyVars, dedupVars>>
NotApi == <<NotApiSweep, sweepVars>>

SlugTaken(s) == \E i \in DOMAIN projects : projects[i].slug = s

\* The ids of the rows an UPDATE ... WHERE slug = :slug touches.
RowsOfSlug(s) == {i \in DOMAIN projects : projects[i].slug = s}

\* A fresh project id (uuid4): the next unused one.
NewId == Cardinality(DOMAIN projects) + 1

ProjectsOfTweet(t) == {i \in DOMAIN projects : projects[i].tweet = t}

\* The row the three mention pipelines INSERT: files '{}', status 'building'.
\* ver counts the writes of files; checked records that the files the row
\* holds went through check_code and passed.
NewMentionProject(s, t) ==
    [slug |-> s, tweet |-> t, status |-> "building", files |-> "empty",
     ver |-> 0, checked |-> FALSE]

\* UPDATE projects SET files = :files, ..., deployment_status = 'deployed'
\* WHERE slug = :slug, as the mention pipelines issue it.
SaveDeployed(s, f, chk) ==
    [i \in DOMAIN projects |->
        IF projects[i].slug = s
        THEN [projects[i] EXCEPT !.files = f, !.status = "deployed",
                                 !.ver = @ + 1, !.checked = chk]
        ELSE projects[i]]

(***************************************************************************)
(* Environment.                                                            *)
(***************************************************************************)
\* Somebody mentions the bot: tweet ids grow with time.
MentionPosted ==
    /\ nPosted < MaxTweets
    /\ nPosted' = nPosted + 1
    /\ UNCHANGED <<dbVars, replies, histVars, restarts, webhookVars, workerVars,
                   adminVars, apiVars, opsVars, limitVars,
                   modVars, parseVars, wsVars, readyVars, destroyVars,
                   statusVars,
                   workerModVars, notifyVars, dedupVars, sweepVars>>

(***************************************************************************)
(* Notifier webhook: notifier_webhook queues process_mention_build as a    *)
(* background task for every delivery; nothing de-duplicates deliveries.   *)
(***************************************************************************)
WhIdle == [tweet |-> 0, pc |-> "free", slug |-> 0, result |-> "none"]

WhEnd == [WhIdle EXCEPT !.pc = "end"]

WhFree == {k \in TaskIds : whTasks[k].pc = "free"}

\* POST /webhooks/notifier for tweet t: the delivery is accepted and the
\* build task is queued; the task starts by generating its slug.
NotifierWebhook(t) ==
    /\ t <= nPosted
    /\ WhFree # {}
    /\ LET k == CHOOSE x \in WhFree : \A y \in WhFree : x <= y IN
       \E s \in Slugs :
          whTasks' = [whTasks EXCEPT ![k] =
                        [tweet |-> t, pc |-> "reply_building", slug |-> s,
                         result |-> "none"]]
    /\ UNCHANGED <<dbVars, replies, histVars, nPosted, NotWebhook>>

\* webhooks.reply_to_tweet: posts with no look at any reply count.
WhPost(t, o) ==
    replies' = [replies EXCEPT ![t] = IF o = "posted" THEN @ + 1 ELSE @]

\* The "Building your app" reply at the head of the try block.
WhReplyBuilding(k) ==
    /\ whTasks[k].pc = "reply_building"
    /\ \E o \in PostOutcomes :
          /\ WhPost(whTasks[k].tweet, o)
          /\ whTasks' = [whTasks EXCEPT ![k].pc =
                            IF o = "raised" THEN "reply_failed" ELSE "insert"]
    /\ UNCHANGED <<dbVars, histVars, nPosted, NotWebhook>>

\* Upsert of the user and INSERT of the Project, then commit.  The INSERT
\* raises on a slug that is taken (Project.slug is unique) or on a
\* database error.
WhInsertProject(k) ==
    /\ whTasks[k].pc = "insert"
    /\ \/ /\ ~SlugTaken(whTasks[k].slug)
          /\ projects' = projects @@
                (NewId :> NewMentionProject(whTasks[k].slug, whTasks[k].tweet))
          /\ whTasks' = [whTasks EXCEPT ![k].pc = "generate"]
       \/ /\ whTasks' = [whTasks EXCEPT ![k].pc = "reply_failed"]
          /\ UNCHANGED projects
    /\ UNCHANGED <<builds, replies, histVars, nPosted, NotWebhook>>

\* client.messages.create and the parse of its answer.  No moderation
\* check stands before the call.
WhGenerate(k) ==
    /\ whTasks[k].pc = "generate"
    /\ aiCalls' = aiCalls \cup
          {[path |-> "webhook", prompt |-> TweetText(whTasks[k].tweet)]}
    /\ \/ \E f \in GeneratedFiles :
             whTasks' = [whTasks EXCEPT ![k].pc = "update", ![k].result = f]
       \/ whTasks' = [whTasks EXCEPT ![k].pc = "reply_failed"]
    /\ UNCHANGED <<dbVars, replies, promptChecks, nPosted, NotWebhook>>

\* UPDATE projects SET ... deployment_status = 'deployed' WHERE slug = :slug.
WhUpdateProject(k) ==
    /\ whTasks[k].pc = "update"
    /\ \/ /\ projects' = SaveDeployed(whTasks[k].slug, whTasks[k].result, FALSE)
          /\ whTasks' = [whTasks EXCEPT ![k].pc = "reply_done"]
       \/ /\ whTasks' = [whTasks EXCEPT ![k].pc = "reply_failed"]
          /\ UNCHANGED projects
    /\ UNCHANGED <<builds, replies, histVars, nPosted, NotWebhook>>

\* The "Done!" reply, still inside the try block.
WhReplyDone(k) ==
    /\ whTasks[k].pc = "reply_done"
    /\ \E o \in PostOutcomes :
          /\ WhPost(whTasks[k].tweet, o)
          /\ whTasks' = [whTasks EXCEPT ![k] =
                            IF o = "raised" THEN [@ EXCEPT !.pc = "reply_failed"]
                            ELSE WhEnd]
    /\ UNCHANGED <<dbVars, histVars, nPosted, NotWebhook>>

\* The except block: the "Build failed" reply.  The Project row is left as
\* it is.
WhReplyFailed(k) ==
    /\ whTasks[k].pc = "reply_failed"
    /\ \E o \in PostOutcomes :
          /\ WhPost(whTasks[k].tweet, o)
          /\ whTasks' = [whTasks EXCEPT ![k] = WhEnd]
    /\ UNCHANGED <<dbVars, histVars, nPosted, NotWebhook>>

(***************************************************************************)
(* Polling worker: MentionProcessor.run, poll_mentions, handle_mention.    *)
(* One coroutine: poll_mentions awaits handle_mention.                     *)
(***************************************************************************)
\* All mentions are written by one user.
Author(t) == 1

\* TwitterClient.get_mentions(since_id): the mentions newer than since_id,
\* which poll_mentions then walks in reverse, oldest first.
RECURSIVE Ascending(_, _)
Ascending(lo, hi) == IF lo > hi THEN <<>> ELSE <<lo>> \o Ascending(lo + 1, hi)

GetMentionsReversed(since) == Ascending(since + 1, nPosted)

\* An exception that leaves poll_mentions: run catches it, prints it and
\* sleeps until the next poll.
WAbortPoll ==
    /\ wpc' = "idle"
    /\ wQueue' = <<>>
    /\ wCur' = 0
    /\ wSlug' = 0
    /\ wResult' = "none"

\* run, before the loop: connect to Redis and read twitter:last_mention_id.
WorkerStart ==
    /\ wpc = "start"
    /\ wpc' = "idle"
    /\ lastMentionId' = redisLast
    /\ UNCHANGED <<dbVars, replies, histVars, envVars, NotWorker, wQueue, wCur,
                   wSlug, wResult, redisLast, processed, rateCount>>

\* poll_mentions up to the loop: fetch the mentions after last_mention_id.
\* A failed fetch returns [] (or raises into run): nothing to handle.
WorkerPoll ==
    /\ wpc = "idle"
    /\ \/ /\ GetMentionsReversed(lastMentionId) # <<>>
          /\ wQueue' = GetMentionsReversed(lastMentionId)
          /\ wpc' = "next"
       \/ UNCHANGED <<wQueue, wpc>>
    /\ UNCHANGED <<dbVars, replies, histVars, envVars, NotWorker, wCur, wSlug,
                   wResult, lastMentionId, redisLast, processed, rateCount>>

\* Head of the for loop of poll_mentions.
WorkerNext ==
    /\ wpc = "next"
    /\ IF wQueue = <<>>
       THEN /\ wpc' = "idle"
            /\ UNCHANGED <<wQueue, wCur>>
       ELSE /\ wCur' = Head(wQueue)
            /\ wQueue' = Tail(wQueue)
            /\ wpc' = "dedup"
    /\ UNCHANGED <<dbVars, replies, histVars, envVars, NotWorker, wSlug, wResult,
                   lastMentionId, redisLast, processed, rateCount>>

\* handle_mention: sismember twitter:processed, return if a member; else
\* sadd and expire.  A Redis error leaves handle_mention and poll_mentions.
WorkerDedup ==
    /\ wpc = "dedup"
    /\ \/ /\ wCur \in processed
          /\ wpc' = "advance"
          /\ UNCHANGED <<processed, wQueue, wCur, wSlug, wResult>>
       \/ /\ wCur \notin processed
          /\ processed' = processed \cup {wCur}
          /\ wpc' = "rate"
          /\ UNCHANGED <<wQueue, wCur, wSlug, wResult>>
       \/ /\ WAbortPoll
          /\ UNCHANGED processed
    /\ UNCHANGED <<dbVars, replies, histVars, envVars, NotWorker, lastMentionId,
                   redisLast, rateCount>>

\* TwitterClient.reply: posts with no look at any reply count; a non-2xx
\* answer is returned as {"error": ...}, not raised.
WorkerPost(t, o) ==
    replies' = [replies EXCEPT ![t] = IF o = "posted" THEN @ + 1 ELSE @]

\* handle_mention: incr of the hourly counter; above 3 the mention is
\* answered with the limit message and dropped.
WorkerRateLimit ==
    /\ wpc = "rate"
    /\ \/ /\ rateCount' = [rateCount EXCEPT ![Author(wCur)] = @ + 1]
          /\ IF rateCount'[Author(wCur)] > RATE_LIMIT_PER_HOUR
             THEN \E o \in PostOutcomes :
                     /\ WorkerPost(wCur, o)
                     /\ IF o = "raised"
                        THEN WAbortPoll
                        ELSE /\ wpc' = "advance"
                             /\ UNCHANGED <<wQueue, wCur, wSlug, wResult>>
             ELSE /\ wpc' = "moderate"
                  /\ UNCHANGED <<replies, wQueue, wCur, wSlug, wResult>>
       \/ /\ WAbortPoll
          /\ UNCHANGED <<rateCount, replies>>
    /\ UNCHANGED <<dbVars, histVars, envVars, NotWorker, lastMentionId,
                   redisLast, processed>>

\* handle_mention: check_prompt; a rejected prompt is answered with the
\* reason and dropped.  An allowed one enters the try block, where the
\* slug is generated.
WorkerModerate ==
    /\ wpc = "moderate"
    /\ promptChecks' = promptChecks \cup
          {[path |-> "worker", prompt |-> TweetText(wCur)]}
    /\ IF WorkerCheckPrompt(TweetText(wCur))
       THEN /\ \E s \in Slugs : wSlug' = s
            /\ wpc' = "reply_building"
            /\ UNCHANGED <<replies, wQueue, wCur, wResult>>
       ELSE \E o \in PostOutcomes :
               /\ WorkerPost(wCur, o)
               /\ IF o = "raised"
                  THEN WAbortPoll
                  ELSE /\ wpc' = "advance"
                       /\ UNCHANGED <<wQueue, wCur, wSlug, wResult>>
    /\ UNCHANGED <<dbVars, aiCalls, envVars, NotWorker, lastMentionId,
                   redisLast, processed, rateCount>>

\* post_building, first statement after the slug in the try block.
WorkerReplyBuilding ==
    /\ wpc = "reply_building"
    /\ \E o \in PostOutcomes :
          /\ WorkerPost(wCur, o)
          /\ wpc' = IF o = "raised" THEN "status_failed" ELSE "create"
    /\ UNCHANGED <<dbVars, histVars, envVars, NotWorker, wQueue, wCur, wSlug,
                   wResult, lastMentionId, redisLast, processed, rateCount>>

\* ProjectSaver.create_build: INSERT of the Project ('building', files '{}')
\* and of its Build ('queued') in one transaction.
WorkerCreateBuild ==
    /\ wpc = "create"
    /\ \/ /\ ~SlugTaken(wSlug)
          /\ projects' = projects @@ (NewId :> NewMentionProject(wSlug, wCur))
          /\ builds' = builds @@ (NewId :> [status |-> "queued", error |-> "none"])
          /\ wpc' = "status_generating"
       \/ /\ wpc' = "status_failed"
          /\ UNCHANGED dbVars
    /\ UNCHANGED <<replies, histVars, envVars, NotWorker, wQueue, wCur, wSlug,
                   wResult, lastMentionId, redisLast, processed, rateCount>>

\* ProjectSaver.update_status: the Project of that slug and every Build of
\* it take the status; error_message is overwritten with the argument.
UpdateStatus(s, status, error) ==
    /\ projects' = [i \in DOMAIN projects |->
                      IF projects[i].slug = s
                      THEN [projects[i] EXCEPT !.status = status]
                      ELSE projects[i]]
    /\ builds' = [i \in DOMAIN builds |->
                    IF i \in RowsOfSlug(s)
                    THEN [status |-> status, error |-> error]
                    ELSE builds[i]]

\* update_status(slug, "generating")
WorkerStatusGenerating ==
    /\ wpc = "status_generating"
    /\ \/ /\ UpdateStatus(wSlug, "generating", "none")
          /\ wpc' = "generate"
       \/ /\ wpc' = "status_failed"
          /\ UNCHANGED dbVars
    /\ UNCHANGED <<replies, histVars, envVars, NotWorker, wQueue, wCur, wSlug,
                   wResult, lastMentionId, redisLast, processed, rateCount>>

\* AIBuilder.generate: the provider call and the parse of its answer.
WorkerGenerate ==
    /\ wpc = "generate"
    /\ aiCalls' = aiCalls \cup
          {[path |-> "worker", prompt |-> TweetText(wCur)]}
    /\ \/ \E f \in GeneratedFiles :
             /\ wResult' = f
             /\ wpc' = "status_saving"
       \/ /\ wpc' = "status_failed"
          /\ UNCHANGED wResult
    /\ UNCHANGED <<dbVars, replies, promptChecks, envVars, NotWorker, wQueue,
                   wCur, wSlug, lastMentionId, redisLast, processed, rateCount>>

\* update_status(slug, "saving")
WorkerStatusSaving ==
    /\ wpc = "status_saving"
    /\ \/ /\ UpdateStatus(wSlug, "saving", "none")
          /\ wpc' = "complete"
       \/ /\ wpc' = "status_failed"
          /\ UNCHANGED dbVars
    /\ UNCHANGED <<replies, histVars, envVars, NotWorker, wQueue, wCur, wSlug,
                   wResult, lastMentionId, redisLast, processed, rateCount>>

\* ProjectSaver.complete_build: the files are written and the Project is
\* marked 'deployed', its Builds 'complete'.  check_code is not called.
CompleteBuild(s, f) ==
    /\ projects' = SaveDeployed(s, f, FALSE)
    /\ builds' = [i \in DOMAIN builds |->
                    IF i \in RowsOfSlug(s)
                    THEN [builds[i] EXCEPT !.status = "complete"]
                    ELSE builds[i]]

WorkerCompleteBuild ==
    /\ wpc = "complete"
    /\ \/ /\ CompleteBuild(wSlug, wResult)
          /\ wpc' = "reply_done"
       \/ /\ wpc' = "status_failed"
          /\ UNCHANGED dbVars
    /\ UNCHANGED <<replies, histVars, envVars, NotWorker, wQueue, wCur, wSlug,
                   wResult, lastMentionId, redisLast, processed, rateCount>>

\* post_complete, the last statement of the try block.
WorkerReplyDone ==
    /\ wpc = "reply_done"
    /\ \E o \in PostOutcomes :
          /\ WorkerPost(wCur, o)
          /\ wpc' = IF o = "raised" THEN "status_failed" ELSE "advance"
    /\ UNCHANGED <<dbVars, histVars, envVars, NotWorker, wQueue, wCur, wSlug,
                   wResult, lastMentionId, redisLast, processed, rateCount>>

\* The except block: update_status(slug, "failed", error=str(e)), with its
\* own failure swallowed.
WorkerStatusFailed ==
    /\ wpc = "status_failed"
    /\ \/ UpdateStatus(wSlug, "failed", "message")
       \/ UNCHANGED dbVars
    /\ wpc' = "reply_failed"
    /\ UNCHANGED <<replies, histVars, envVars, NotWorker, wQueue, wCur, wSlug,
                   wResult, lastMentionId, redisLast, processed, rateCount>>

\* The except block: post_failed; if it raises, the exception leaves
\* handle_mention and poll_mentions.
WorkerReplyFailed ==
    /\ wpc = "reply_failed"
    /\ \E o \in PostOutcomes :
          /\ WorkerPost(wCur, o)
          /\ IF o = "raised"
             THEN WAbortPoll
             ELSE /\ wpc' = "advance"
                  /\ UNCHANGED <<wQueue, wCur, wSlug, wResult>>
    /\ UNCHANGED <<dbVars, histVars, envVars, NotWorker, lastMentionId,
                   redisLast, processed, rateCount>>

\* poll_mentions after handle_mention returned: last_mention_id is set in
\* memory, then written to Redis; a Redis error leaves poll_mentions with
\* the in-memory marker already moved.
WorkerAdvance ==
    /\ wpc = "advance"
    /\ lastMentionId' = wCur
    /\ \/ /\ redisLast' = wCur
          /\ wpc' = "next"
          /\ wCur' = 0
          /\ wSlug' = 0
          /\ wResult' = "none"
          /\ UNCHANGED wQueue
       \/ /\ WAbortPoll
          /\ UNCHANGED redisLast
    /\ UNCHANGED <<dbVars, replies, histVars, envVars, NotWorker, processed,
                   rateCount>>

\* The worker process is stopped and started again (a redeploy, a crash):
\* what it held in memory is gone, Redis and the database stay.
WorkerRestart ==
    /\ restarts < MaxRestarts
    /\ wpc # "start"
    /\ restarts' = restarts + 1
    /\ wpc' = "start"
    /\ wQueue' = <<>>
    /\ wCur' = 0
    /\ wSlug' = 0
    /\ wResult' = "none"
    /\ lastMentionId' = 0
    /\ UNCHANGED <<dbVars, replies, histVars, nPosted, NotWorker, redisLast,
                   processed, rateCount>>

(***************************************************************************)
(* Admin router: fetch_twitter_mentions with auto-process,                 *)
(* process_deployment, reply_to_tweet with its reply cap, trigger_deploy   *)
(* and force_reply.  _twitter_state lives in the memory of the API         *)
(* process; the reply counts live in Redis, with _twitter_state as the     *)
(* fallback.                                                               *)
(***************************************************************************)
AdTaskIds == 1..MaxAdminTasks

AdIdle == [kind |-> "none", tweet |-> 0, pc |-> "free", slug |-> 0,
           result |-> "none", src |-> "none"]

AdEnd == [AdIdle EXCEPT !.pc = "end"]

AdFree == {k \in AdTaskIds : adTasks[k].pc = "free"}

AdFirstFree == CHOOSE x \in AdFree : \A y \in AdFree : x <= y

\* The n-th free task slot, for the tasks one fetch creates.
RECURSIVE AdSpawn(_, _)
AdSpawn(tasks, ts) ==
    IF ts = {} THEN tasks
    ELSE LET t == CHOOSE x \in ts : \A y \in ts : x <= y
             free == {k \in AdTaskIds : tasks[k].pc = "free"}
             k == CHOOSE x \in free : \A y \in free : x <= y
         IN  AdSpawn([tasks EXCEPT ![k] =
                        [AdIdle EXCEPT !.kind = "deploy", !.tweet = t,
                                       !.pc = "start"]],
                     ts \ {t})

\* A mention as fetch_twitter_mentions records it.
NewMention == [status |-> "pending", slug |-> 0, url |-> FALSE]

\* is_build_request: both prompts of the model hold the keyword "build a".
IsBuildRequest(p) == p \in Prompts

\* GET /admin/mentions -> fetch_twitter_mentions(auto_process=True): every
\* tweet of the search that is neither in processed_ids nor in mentions is
\* recorded and, being a build request, handed to a process_deployment task.
FetchTwitterMentions ==
    LET fresh == {t \in 1..nPosted :
                    t \notin adProcessed /\ t \notin DOMAIN adMentions}
        build == {t \in fresh : IsBuildRequest(TweetText(t))}
    IN  /\ fresh # {}
        /\ Cardinality(build) <= Cardinality(AdFree)
        /\ adMentions' = adMentions @@
              [t \in fresh |->
                 IF t \in build THEN NewMention
                 ELSE [NewMention EXCEPT !.status = "skipped"]]
        /\ adProcessed' = adProcessed \cup (fresh \ build)
        /\ adTasks' = AdSpawn(adTasks, build)
        /\ UNCHANGED <<dbVars, replies, histVars, envVars, NotAdmin,
                       memReplyCounts, replyCount, redisUp>>

\* POST /admin/deploy -> trigger_deploy: a mention that is pending or
\* failed is set to processing and handed to a process_deployment task.
TriggerDeploy(t) ==
    /\ t \in DOMAIN adMentions
    /\ adMentions[t].status \in {"pending", "failed"}
    /\ AdFree # {}
    /\ adMentions' = [adMentions EXCEPT ![t].status = "processing"]
    /\ adTasks' = [adTasks EXCEPT ![AdFirstFree] =
                     [AdIdle EXCEPT !.kind = "deploy", !.tweet = t,
                                    !.pc = "start"]]
    /\ UNCHANGED <<dbVars, replies, histVars, envVars, NotAdmin, adProcessed,
                   memReplyCounts, replyCount, redisUp>>

\* POST /admin/reply -> force_reply, up to its call of reply_to_tweet: it
\* needs a deployment URL, from the mention in memory or from a deployed
\* Project of that tweet, else it answers 400.
ForceReply(t) ==
    /\ t <= nPosted
    /\ AdFree # {}
    /\ \/ t \in DOMAIN adMentions /\ adMentions[t].url
       \/ \E i \in ProjectsOfTweet(t) : projects[i].status = "deployed"
    /\ adMentions' = IF t \in DOMAIN adMentions
                     THEN [adMentions EXCEPT ![t].status = "deployed",
                                             ![t].url = TRUE]
                     ELSE adMentions
    /\ adTasks' = [adTasks EXCEPT ![AdFirstFree] =
                     [AdIdle EXCEPT !.kind = "force", !.tweet = t,
                                    !.pc = "f_count"]]
    /\ UNCHANGED <<dbVars, replies, histVars, envVars, NotAdmin, adProcessed,
                   memReplyCounts, replyCount, redisUp>>

\* process_deployment up to its first await: the mention is set to
\* building and the slug is generated.
AdStart(k) ==
    /\ adTasks[k].pc = "start"
    /\ LET t == adTasks[k].tweet IN
       IF t \notin DOMAIN adMentions
       THEN /\ adTasks' = [adTasks EXCEPT ![k] = AdEnd]
            /\ UNCHANGED adMentions
       ELSE \E s \in Slugs :
               /\ adMentions' = [adMentions EXCEPT ![t].status = "building",
                                                   ![t].slug = s]
               /\ adTasks' = [adTasks EXCEPT ![k].pc = "b_count", ![k].slug = s]
    /\ UNCHANGED <<dbVars, replies, histVars, envVars, NotAdmin, adProcessed,
                   memReplyCounts, replyCount, redisUp>>

\* get_reply_count: the count of Redis, or the in-memory fallback when
\* Redis cannot be reached or raises.
GetReplyCount(t) == IF redisUp THEN replyCount[t] ELSE memReplyCounts[t]

\* Where the statement after a reply_to_tweet call resumes.
AdAfterReply(pc) ==
    CASE pc \in {"b_count", "b_post", "b_incr"} -> "insert"
      [] pc \in {"d_count", "d_post", "d_incr"} -> "d_result"
      [] OTHER -> "f_result"

AdNextOfReply(pc) ==
    CASE pc = "b_count" -> "b_post" [] pc = "b_post" -> "b_incr"
      [] pc = "d_count" -> "d_post" [] pc = "d_post" -> "d_incr"
      [] pc = "f_count" -> "f_post" [] OTHER -> "f_incr"

\* What process_deployment / force_reply do with the reply id (got: a reply
\* id was returned): the mention is set to replied and the tweet is marked
\* processed; process_deployment marks it processed in either case.
AdResume(k, pc, got) ==
    LET t == adTasks[k].tweet IN
    IF AdAfterReply(pc) = "insert"
    THEN /\ adTasks' = [adTasks EXCEPT ![k].pc = "insert", ![k].src = "none"]
         /\ UNCHANGED adMentions
         /\ adProcessed' = IF got THEN adProcessed \cup {t} ELSE adProcessed
    ELSE /\ adTasks' = [adTasks EXCEPT ![k] = AdEnd]
         /\ adMentions' = IF got /\ t \in DOMAIN adMentions
                          THEN [adMentions EXCEPT ![t].status = "replied"]
                          ELSE adMentions
         /\ adProcessed' = IF got \/ AdAfterReply(pc) = "d_result"
                           THEN adProcessed \cup {t} ELSE adProcessed

\* The except block of process_deployment: the mention is set to failed.
\* An exception in force_reply ends the request.
AdRaise(k) ==
    /\ adTasks' = [adTasks EXCEPT ![k] = AdEnd]
    /\ adMentions' = IF adTasks[k].kind = "deploy"
                        /\ adTasks[k].tweet \in DOMAIN adMentions
                     THEN [adMentions EXCEPT ![adTasks[k].tweet].status = "failed"]
                     ELSE adMentions

\* reply_to_tweet, first part: read the count and return None at the cap
\* (force is False at every call site).
AdReplyCheck(k) ==
    /\ adTasks[k].pc \in {"b_count", "d_count", "f_count"}
    /\ IF GetReplyCount(adTasks[k].tweet) >= MAX_REPLIES_PER_TWEET
       THEN AdResume(k, adTasks[k].pc, FALSE)
       ELSE /\ adTasks' = [adTasks EXCEPT
                             ![k].pc = AdNextOfReply(adTasks[k].pc),
                             ![k].src = IF redisUp THEN "redis" ELSE "memory"]
            /\ UNCHANGED <<adMentions, adProcessed>>
    /\ UNCHANGED <<dbVars, replies, histVars, envVars, NotAdmin,
                   memReplyCounts, replyCount, redisUp>>

\* The reply_to_tweet calls that carry the 'Your app is ready' message: the
\* one that ends process_deployment and the one of force_reply.
IsReadyReply(pc) == pc \in {"d_post", "f_post"}

\* reply_to_tweet, second part: the POST to Twitter.
AdReplyPost(k) ==
    /\ adTasks[k].pc \in {"b_post", "d_post", "f_post"}
    /\ \E o \in PostOutcomes :
          /\ replies' = [replies EXCEPT ![adTasks[k].tweet] =
                           IF o = "posted" THEN @ + 1 ELSE @]
          /\ readyReplies' = [readyReplies EXCEPT ![adTasks[k].tweet] =
                                IF o = "posted" /\ IsReadyReply(adTasks[k].pc)
                                THEN @ + 1 ELSE @]
          /\ CASE o = "posted" ->
                    /\ adTasks' = [adTasks EXCEPT
                                     ![k].pc = AdNextOfReply(adTasks[k].pc)]
                    /\ UNCHANGED <<adMentions, adProcessed>>
               [] o = "refused" -> AdResume(k, adTasks[k].pc, FALSE)
               [] OTHER -> AdRaise(k) /\ UNCHANGED adProcessed
    /\ UNCHANGED <<dbVars, histVars, envVars, NotAdminReply, memReplyCounts,
                   replyCount, redisUp>>

\* increment_reply_count: INCR in Redis, or the in-memory fallback.
IncrementReplyCount(t) ==
    IF redisUp
    THEN /\ replyCount' = [replyCount EXCEPT ![t] = @ + 1]
         /\ UNCHANGED memReplyCounts
    ELSE /\ memReplyCounts' = [memReplyCounts EXCEPT ![t] = @ + 1]
         /\ UNCHANGED replyCount

\* reply_to_tweet, third part, after a 2xx answer: the count is
\* incremented, the tweet is added to processed_ids, the reply id returned.
AdReplyIncrement(k) ==
    /\ adTasks[k].pc \in {"b_incr", "d_incr", "f_incr"}
    /\ IncrementReplyCount(adTasks[k].tweet)
    /\ AdResume(k, adTasks[k].pc, TRUE)
    /\ UNCHANGED <<dbVars, replies, histVars, envVars, NotAdmin, redisUp>>

\* process_deployment: upsert of the user and INSERT of the Project.
AdInsertProject(k) ==
    /\ adTasks[k].pc = "insert"
    /\ \/ /\ ~SlugTaken(adTasks[k].slug)
          /\ projects' = projects @@
                (NewId :> NewMentionProject(adTasks[k].slug, adTasks[k].tweet))
          /\ adTasks' = [adTasks EXCEPT ![k].pc = "generate"]
          /\ UNCHANGED adMentions
       \/ /\ AdRaise(k)
          /\ UNCHANGED projects
    /\ UNCHANGED <<builds, replies, histVars, envVars, NotAdmin, adProcessed,
                   memReplyCounts, replyCount, redisUp>>

\* process_deployment: client.messages.create and the parse of the answer.
\* No moderation check stands before the call.
AdGenerate(k) ==
    /\ adTasks[k].pc = "generate"
    /\ aiCalls' = aiCalls \cup
          {[path |-> "admin", prompt |-> TweetText(adTasks[k].tweet)]}
    /\ \/ /\ \E f \in GeneratedFiles :
                adTasks' = [adTasks EXCEPT ![k].pc = "update", ![k].result = f]
          /\ UNCHANGED adMentions
       \/ AdRaise(k)
    /\ UNCHANGED <<dbVars, replies, promptChecks, envVars, NotAdmin,
                   adProcessed, memReplyCounts, replyCount, redisUp>>

\* process_deployment: UPDATE projects SET ... 'deployed' WHERE slug, then
\* the mention is set to deployed with its URL.
AdUpdateProject(k) ==
    /\ adTasks[k].pc = "update"
    /\ \/ /\ projects' = SaveDeployed(adTasks[k].slug, adTasks[k].result, FALSE)
          /\ adTasks' = [adTasks EXCEPT ![k].pc = "d_count", ![k].result = "none"]
          /\ adMentions' = [adMentions EXCEPT
                              ![adTasks[k].tweet].status = "deployed",
                              ![adTasks[k].tweet].url = TRUE]
       \/ /\ AdRaise(k)
          /\ UNCHANGED projects
    /\ UNCHANGED <<builds, replies, histVars, envVars, NotAdmin, adProcessed,
                   memReplyCounts, replyCount, redisUp>>

\* The API process is stopped and started again: _twitter_state is built
\* anew and the running tasks are gone; Redis and the database stay.
AdminRestart ==
    /\ restarts < MaxRestarts
    /\ restarts' = restarts + 1
    /\ adMentions' = <<>>
    /\ adProcessed' = {}
    /\ memReplyCounts' = [t \in Tweets |-> 0]
    /\ adTasks' = [k \in AdTaskIds |->
                     IF adTasks[k].pc = "free" THEN AdIdle ELSE AdEnd]
    /\ UNCHANGED <<dbVars, replies, histVars, nPosted, NotAdmin, replyCount,
                   redisUp>>

\* Redis becomes unreachable, or reachable again.
RedisToggle ==
    /\ redisUp' = ~redisUp
    /\ UNCHANGED <<dbVars, replies, histVars, envVars, NotAdmin, adMentions,
                   adProcessed, memReplyCounts, replyCount, adTasks>>

(***************************************************************************)
(* HTTP API: create_project (one request, one database transaction),       *)
(* refine_project with its do_refine task, and the admin rebuild_project   *)
(* with its do_rebuild task.                                               *)
(***************************************************************************)
ApiTaskIds == 1..MaxApiTasks

ApiIdle == [kind |-> "none", pc |-> "free", slug |-> 0, prompt |-> "none",
            result |-> "none", snap |-> "none", snapChecked |-> FALSE,
            base |-> 0]

ApiEnd == [ApiIdle EXCEPT !.pc = "end"]

ApiFree == {k \in ApiTaskIds : apiTasks[k].pc = "free"}

ApiFirstFree == CHOOSE x \in ApiFree : \A y \in ApiFree : x <= y

\* POST /projects -> create_project up to the try block: the slug is
\* generated, the Project ('building') and its Build ('building') are
\* flushed inside the request's transaction.  A slug that is taken makes
\* the flush raise and the request end with nothing written.
CreateProject(p) ==
    /\ ApiFree # {}
    /\ \E s \in Slugs :
          /\ ~SlugTaken(s)
          /\ apiTasks' = [apiTasks EXCEPT ![ApiFirstFree] =
                            [ApiIdle EXCEPT !.kind = "create", !.pc = "moderate",
                                            !.slug = s, !.prompt = p]]
    /\ UNCHANGED <<dbVars, histVars, NotApi>>

\* A request that has answered: 200 ("ok"), 400 for a moderation error
\* ("prompt_blocked", "code_blocked"), 500 ("error").
ApiDone(resp) == [ApiEnd EXCEPT !.result = resp]

\* str(e) as create_project stores it in Build.error_message: the text of
\* the exception, which an exception raised without arguments (a timeout
\* of the HTTP client) leaves empty.
ErrorTexts == {"message", "empty"}

\* A commit of create_project: the Project and its Build become rows and
\* the request goes on as `after`, unless the commit itself fails (a
\* database error, or the slug taken meanwhile), which leaves nothing and
\* answers 500.
ApiCommit(k, pstatus, f, chk, bstatus, error, after) ==
    \/ /\ ~SlugTaken(apiTasks[k].slug)
       /\ projects' = projects @@
             (NewId :> [slug |-> apiTasks[k].slug, tweet |-> 0,
                        status |-> pstatus, files |-> f,
                        ver |-> IF f = "empty" THEN 0 ELSE 1,
                        checked |-> chk])
       /\ builds' = builds @@ (NewId :> [status |-> bstatus, error |-> error])
       /\ apiTasks' = [apiTasks EXCEPT ![k] = after]
    \/ /\ UNCHANGED dbVars
       /\ apiTasks' = [apiTasks EXCEPT ![k] = ApiDone("error")]

\* The two except blocks of create_project.
ApiCommitFailed(k, f, chk, error, resp) ==
    ApiCommit(k, "failed", f, chk, "failed", error, ApiDone(resp))

\* BuilderService.generate_project, first part: check_prompt, and for an
\* allowed prompt the call of the generation provider.
ApiModeratePrompt(k) ==
    /\ apiTasks[k].pc = "moderate"
    /\ promptChecks' = promptChecks \cup
          {[path |-> "api", prompt |-> apiTasks[k].prompt]}
    /\ IF ApiCheckPrompt(apiTasks[k].prompt)
       THEN /\ aiCalls' = aiCalls \cup
                  {[path |-> "api", prompt |-> apiTasks[k].prompt]}
            /\ apiTasks' = [apiTasks EXCEPT ![k].pc = "generate"]
            /\ UNCHANGED dbVars
       ELSE /\ ApiCommitFailed(k, "empty", FALSE, "message", "prompt_blocked")
            /\ UNCHANGED aiCalls
    /\ UNCHANGED NotApi

\* A create_project that would put the rejected files on the Project.
ApiRejectCodePersisting(k, f) ==
    ApiCommitFailed(k, f, FALSE, "message", "code_blocked")

\* generate_project when check_code rejects the files: ValueError, caught
\* by create_project's first except block before anything was put on the
\* Project.
ApiRejectCode(k, f) ==
    ApiCommitFailed(k, "empty", FALSE, "message", "code_blocked")

\* BuilderService.generate_project, second part: the provider answers or
\* raises, the answer is parsed and check_code runs on its files.
ApiGenerate(k) ==
    /\ apiTasks[k].pc = "generate"
    /\ \/ \E f \in GeneratedFiles :
             IF CheckCode(f)
             THEN /\ apiTasks' = [apiTasks EXCEPT ![k].pc = "deploy",
                                                  ![k].result = f]
                  /\ UNCHANGED dbVars
             ELSE ApiRejectCode(k, f)
       \/ ApiCommitFailed(k, "empty", FALSE, "message", "error")
    /\ UNCHANGED <<histVars, NotApi>>

\* create_project when deployer.deploy raises with text e: the second
\* except block sets Project and Build to failed and commits; the files
\* were put on the Project before the deploy.
ApiDeployFailed(k, e) ==
    ApiCommitFailed(k, apiTasks[k].result, TRUE, e, "error")

\* create_project after the generation: the files are put on the Project,
\* deployer.deploy is awaited; on success the Project is set live and the
\* Build complete, on failure both are set failed; then the commit.
ApiDeploy(k) ==
    /\ apiTasks[k].pc = "deploy"
    /\ \/ ApiCommit(k, "live", apiTasks[k].result, TRUE, "complete", "none",
                    [apiTasks[k] EXCEPT !.pc = "track"])
       \/ \E e \in ErrorTexts : ApiDeployFailed(k, e)
    /\ UNCHANGED <<histVars, NotApi>>

\* create_project after its commit, still inside the try block: refresh,
\* the 'complete' broadcast and track_usage (a commit of its own).  If one
\* of them raises, the second except block sets the Project and the Build,
\* both committed as live and complete, to failed.
ApiTrackUsage(k) ==
    /\ apiTasks[k].pc = "track"
    /\ \/ /\ apiTasks' = [apiTasks EXCEPT ![k] = ApiDone("ok")]
          /\ UNCHANGED dbVars
       \/ /\ apiTasks' = [apiTasks EXCEPT ![k] = ApiDone("error")]
          /\ \E e \in ErrorTexts :
                UpdateStatus(apiTasks[k].slug, "failed", e)
    /\ UNCHANGED <<histVars, NotApi>>

\* UPDATE projects SET deployment_status = :status WHERE slug = :slug.
SetProjectStatus(s, status) ==
    [i \in DOMAIN projects |->
        IF projects[i].slug = s THEN [projects[i] EXCEPT !.status = status]
        ELSE projects[i]]

\* The Projects of slug s whose deployment_status the UPDATE to 'building'
\* changes: they enter 'building' now.
EntersBuilding(s) == {i \in RowsOfSlug(s) : projects[i].status # "building"}

\* The row SELECT ... WHERE slug = :slug returns.
ProjectOfSlug(s) == CHOOSE i \in DOMAIN projects : projects[i].slug = s

\* POST /projects/{slug}/refine -> refine_project: the Project is marked
\* building, the files to refine are data.current_files if the client sent
\* any, else the Project's files, and do_refine is started as a task.
\* Nothing looks at what is already running on the Project.
RefineProject(s) ==
    /\ SlugTaken(s)
    /\ ApiFree # {}
    /\ projects' = SetProjectStatus(s, "building")
    /\ \E own \in BOOLEAN, f \in GeneratedFiles :
          apiTasks' = [apiTasks EXCEPT ![ApiFirstFree] =
             [ApiIdle EXCEPT
                !.kind = "refine", !.pc = "refine", !.slug = s,
                !.snap = IF own THEN projects[ProjectOfSlug(s)].files ELSE f,
                !.snapChecked = own /\ projects[ProjectOfSlug(s)].checked,
                !.base = projects[ProjectOfSlug(s)].ver]]
    /\ rebuilding' = rebuilding \cup EntersBuilding(s)
    /\ UNCHANGED <<builds, histVars, NotApiSweep>>

\* do_refine: the provider answers with new files, or with text that does
\* not parse (the files to refine are written back), or the task raises
\* (only the status is set back to 'deployed').  check_code is not called.
DoRefine(k) ==
    /\ apiTasks[k].pc = "refine"
    /\ \/ \E f \in GeneratedFiles :
             projects' = SaveDeployed(apiTasks[k].slug, f, FALSE)
       \/ projects' = SaveDeployed(apiTasks[k].slug, apiTasks[k].snap,
                                    apiTasks[k].snapChecked)
       \/ projects' = SetProjectStatus(apiTasks[k].slug, "deployed")
    /\ apiTasks' = [apiTasks EXCEPT ![k] = ApiEnd]
    /\ UNCHANGED <<builds, histVars, NotApi>>

\* POST /admin/rebuild/{slug} -> rebuild_project: the Project is marked
\* building and do_rebuild is added as a background task.
RebuildProject(s) ==
    /\ SlugTaken(s)
    /\ ApiFree # {}
    /\ projects' = SetProjectStatus(s, "building")
    /\ apiTasks' = [apiTasks EXCEPT ![ApiFirstFree] =
                      [ApiIdle EXCEPT !.kind = "rebuild", !.pc = "rebuild",
                                      !.slug = s,
                                      !.base = projects[ProjectOfSlug(s)].ver]]
    /\ rebuilding' = rebuilding \cup EntersBuilding(s)
    /\ UNCHANGED <<builds, histVars, NotApiSweep>>

\* do_rebuild -> regenerate_project: a provider error ends it with the
\* Project left as it is; else the parsed files (or the fallback page) are
\* written and the Project is marked 'deployed'.  Neither check is called.
DoRebuild(k) ==
    /\ apiTasks[k].pc = "rebuild"
    /\ \/ /\ \E f \in GeneratedFiles :
                projects' = SaveDeployed(apiTasks[k].slug, f, FALSE)
          /\ aiCalls' = aiCalls \cup {[path |-> "rebuild", prompt |-> "none"]}
       \/ UNCHANGED <<projects, aiCalls>>
    /\ apiTasks' = [apiTasks EXCEPT ![k] = ApiEnd]
    /\ UNCHANGED <<builds, promptChecks, NotApi>>

(***************************************************************************)
(* Time and the cleanup service (apps/api/app/services/cleanup.py).        *)
(***************************************************************************)
\* More than an hour passes with nothing else happening: every Project
\* that exists is now older than the cleanup cutoff, and the worker's
\* hourly rate-limit keys (EXPIRE 3600) are gone, and no Project has
\* entered 'building' within the hour.
HourPasses ==
    /\ \/ aged # DOMAIN projects
       \/ \E a \in DOMAIN rateCount : rateCount[a] > 0
       \/ rebuilding # {}
    /\ aged' = DOMAIN projects
    /\ rebuilding' = {}
    /\ rateCount' = [a \in DOMAIN rateCount |-> 0]
    /\ UNCHANGED <<dbVars, replies, histVars, envVars, webhookVars, adminVars,
                   apiVars, limitVars, modVars,
                   parseVars, wsVars,
                   readyVars, destroyVars,
                   statusVars, workerModVars,
                   notifyVars, dedupVars, sweeps, wpc, wQueue, wCur, wSlug,
                   wResult, lastMentionId, redisLast, processed>>

\* The deployment_status values cleanup_failed_deployments selects.
StuckStatuses == {"building", "deploying", "pending"}

\* CleanupService.cleanup_failed_deployments: every Project created more
\* than an hour ago whose deployment_status is building, deploying or
\* pending is set to failed.  No Build row is read or written.
CleanupFailedDeployments ==
    /\ sweeps < MaxSweeps
    /\ sweeps' = sweeps + 1
    /\ projects' = [i \in DOMAIN projects |->
                      IF i \in aged /\ projects[i].status \in StuckStatuses
                      THEN [projects[i] EXCEPT !.status = "failed"]
                      ELSE projects[i]]
    /\ UNCHANGED <<builds, replies, histVars, envVars, webhookVars, workerVars,
                   adminVars, apiVars, limitVars, modVars, parseVars,
                   wsVars, readyVars, destroyVars, statusVars, workerModVars,
                   notifyVars, dedupVars,
                   sweepVars, aged>>

(***************************************************************************)
(* RateLimitMiddleware.dispatch (apps/api/app/middleware/rate_limit.py),   *)
(* for the requests of one client and one limit type, with LIMITS set to   *)
(* RATE_LIMIT_PER_HOUR requests per window.  The window is WindowTicks     *)
(* ticks of the clock long.  Every Redis command may raise RedisError.     *)
(***************************************************************************)
RlReqIds == 1..MaxInFlight

RlIdle == [pc |-> "free", count |-> 0, ttl |-> 0, status |-> "none",
           hdr |-> FALSE, remaining |-> 0, reset |-> 0, calls |-> 0]

\* The slots a new request can take: never used, or answered.
RlFree == {k \in RlReqIds : rlReqs[k].pc \in {"free", "end"}}

\* A request arrives at the middleware (its path is not in SKIP_PATHS).
RlArrive ==
    /\ rlServed < MaxRequests
    /\ RlFree # {}
    /\ rlServed' = rlServed + 1
    /\ rlReqs' = [rlReqs EXCEPT ![CHOOSE x \in RlFree : \A y \in RlFree : x <= y]
                                   = [RlIdle EXCEPT !.pc = "incr"]]
    /\ UNCHANGED <<rlCount, rlTtl>>

\* except redis.RedisError: the request is passed on, outside the limiter.
RlFailOpen(k) == rlReqs' = [rlReqs EXCEPT ![k].pc = "call_open"]

\* count = await r.incr(key): a missing key is created, with no expiry.
RlIncr(k) ==
    /\ rlReqs[k].pc = "incr"
    /\ \/ /\ rlCount' = rlCount + 1
          /\ rlTtl' = IF rlCount = 0 THEN -1 ELSE rlTtl
          /\ rlReqs' = [rlReqs EXCEPT
                          ![k].count = rlCount + 1,
                          ![k].pc = IF rlCount = 0 THEN "expire" ELSE "ttl"]
       \/ /\ RlFailOpen(k)
          /\ UNCHANGED <<rlCount, rlTtl>>
    /\ UNCHANGED rlServed

\* if count == 1: await r.expire(key, window_seconds)
RlExpire(k) ==
    /\ rlReqs[k].pc = "expire"
    /\ \/ /\ rlTtl' = IF rlCount > 0 THEN WindowTicks ELSE rlTtl
          /\ rlReqs' = [rlReqs EXCEPT ![k].pc = "ttl"]
       \/ /\ RlFailOpen(k)
          /\ UNCHANGED rlTtl
    /\ UNCHANGED <<rlCount, rlServed>>

\* The 429 answer of dispatch.
RlReject(k, ttl) ==
    [rlReqs[k] EXCEPT !.pc = "end", !.ttl = ttl, !.status = "429",
                      !.hdr = TRUE, !.remaining = 0, !.reset = ttl]

\* ttl = await r.ttl(key), then the comparison of count with max_requests:
\* above it the request is answered 429, else it is passed on.
RlTtl(k) ==
    /\ rlReqs[k].pc = "ttl"
    /\ \/ rlReqs' = [rlReqs EXCEPT ![k] =
                       IF rlReqs[k].count > RATE_LIMIT_PER_HOUR
                       THEN RlReject(k, rlTtl)
                       ELSE [rlReqs[k] EXCEPT !.pc = "call", !.ttl = rlTtl]]
       \/ RlFailOpen(k)
    /\ UNCHANGED <<rlCount, rlTtl, rlServed>>

\* max(0, max_requests - count)
RlRemaining(count) ==
    IF count >= RATE_LIMIT_PER_HOUR THEN 0 ELSE RATE_LIMIT_PER_HOUR - count

\* The handler that call_next invoked raised redis.RedisError.  Inside
\* the try block of dispatch the except clause takes it for an error of the
\* limiter; in the except clause it leaves dispatch.
RlHandlerRaised(k) ==
    IF rlReqs[k].pc = "call"
    THEN [rlReqs[k] EXCEPT !.pc = "call_open", !.calls = @ + 1]
    ELSE [rlReqs[k] EXCEPT !.pc = "end", !.status = "raised", !.calls = @ + 1]

\* response = await call_next(request): inside the limiter the three
\* X-RateLimit headers are added to the response; after a Redis error the
\* response is returned as the handler made it.
RlCallNext(k) ==
    /\ rlReqs[k].pc \in {"call", "call_open"}
    /\ \/ rlReqs' = [rlReqs EXCEPT ![k] =
                       IF rlReqs[k].pc = "call"
                       THEN [rlReqs[k] EXCEPT
                               !.pc = "end", !.status = "200", !.hdr = TRUE,
                               !.remaining = RlRemaining(rlReqs[k].count),
                               !.reset = rlReqs[k].ttl, !.calls = @ + 1]
                       ELSE [rlReqs[k] EXCEPT !.pc = "end", !.status = "200",
                                              !.calls = @ + 1]]
       \/ rlReqs' = [rlReqs EXCEPT ![k] = RlHandlerRaised(k)]
    /\ UNCHANGED <<rlCount, rlTtl, rlServed>>

\* The clock of Redis moves by one tick: a key with an expiry comes one
\* tick closer to it and is deleted when it is reached.
RlTick ==
    /\ rlTtl >= 1
    /\ IF rlTtl = 1
       THEN rlCount' = 0 /\ rlTtl' = -2
       ELSE rlTtl' = rlTtl - 1 /\ UNCHANGED rlCount
    /\ UNCHANGED <<rlReqs, rlServed>>

\* What the limiter leaves alone.
NotLimit ==
    <<dbVars, replies, histVars, envVars, webhookVars, workerVars, adminVars,
      apiVars, opsVars, modVars, parseVars, wsVars, readyVars, destroyVars,
      statusVars, workerModVars, notifyVars, dedupVars, sweepVars>>

(***************************************************************************)
(* ContentModerator.check_prompt (apps/api/app/services/moderator.py).     *)
(* A string is a sequence of characters, each a one-character string;      *)
(* "I_dot" stands for U+0130 (capital I with dot above) and "dot_above"    *)
(* for U+0307 (combining dot above).  A regular expression is a sequence   *)
(* of atoms: a literal, \s+, \s*, .*, an optional character, or an         *)
(* alternation of sequences of atoms.                                      *)
(***************************************************************************)
UpperAscii ==
    <<"A", "B", "C", "D", "E", "F", "G", "H", "I", "J", "K", "L", "M", "N",
      "O", "P", "Q", "R", "S", "T", "U", "V", "W", "X", "Y", "Z">>

LowerAscii ==
    <<"a", "b", "c", "d", "e", "f", "g", "h", "i", "j", "k", "l", "m", "n",
      "o", "p", "q", "r", "s", "t", "u", "v", "w", "x", "y", "z">>

\* str.lower() of one character: U+0130 becomes the two characters "i" and
\* U+0307, an upper-case letter its lower-case letter.
LowerChar(c) ==
    IF c = "I_dot" THEN <<"i", "dot_above">>
    ELSE IF \E n \in DOMAIN UpperAscii : UpperAscii[n] = c
         THEN <<LowerAscii[CHOOSE n \in DOMAIN UpperAscii : UpperAscii[n] = c]>>
         ELSE <<c>>

\* prompt.lower()
RECURSIVE Lower(_)
Lower(s) == IF s = <<>> THEN <<>> ELSE LowerChar(Head(s)) \o Lower(Tail(s))

\* re.IGNORECASE compares characters by their one-character lower case:
\* that of U+0130 is "i".
FoldChar(c) == LowerChar(c)[1]

Lit(s) == [t |-> "lit", s |-> s]
SpacePlus == [t |-> "many", cls |-> "space", min |-> 1]
SpaceStar == [t |-> "many", cls |-> "space", min |-> 0]
AnyStar == [t |-> "many", cls |-> "any", min |-> 0]
Opt(c) == [t |-> "opt", c |-> c]
Alt(xs) == [t |-> "alt", xs |-> xs]

\* \s matches white space, . any character but a newline.
Whitespace == {" ", "\t", "\n", "\r", "\f"}
InClass(cls, c) == IF cls = "space" THEN c \in Whitespace ELSE c # "\n"

\* MatchFrom(atoms, k, s, i): the positions of s at which a match of
\* atoms[k], atoms[k+1], ... that starts at position i can end.
RECURSIVE MatchFrom(_, _, _, _), AtomEnds(_, _, _)
AtomEnds(a, s, i) ==
    CASE a.t = "lit" ->
           IF /\ i + Len(a.s) - 1 <= Len(s)
              /\ \A n \in 1..Len(a.s) : FoldChar(s[i + n - 1]) = FoldChar(a.s[n])
           THEN {i + Len(a.s)} ELSE {}
      [] a.t = "many" ->
           {j \in (i + a.min)..(Len(s) + 1) :
               \A n \in i..(j - 1) : InClass(a.cls, s[n])}
      [] a.t = "opt" ->
           {i} \cup (IF i <= Len(s) /\ FoldChar(s[i]) = FoldChar(a.c)
                     THEN {i + 1} ELSE {})
      [] a.t = "alt" ->
           UNION {MatchFrom(a.xs[m], 1, s, i) : m \in DOMAIN a.xs}

MatchFrom(atoms, k, s, i) ==
    IF k > Len(atoms) THEN {i}
    ELSE UNION {MatchFrom(atoms, k + 1, s, j) : j \in AtomEnds(atoms[k], s, i)}

\* re.search(pattern, s, re.IGNORECASE)
re_search(pattern, s) ==
    \E i \in 1..(Len(s) + 1) : MatchFrom(pattern, 1, s, i) # {}

INJECTION_PATTERNS ==
       \* ignore\s+(previous|above|all)\s+(instructions?|prompts?)
    << <<Lit(<<"i", "g", "n", "o", "r", "e">>), SpacePlus, Alt(<<<<Lit(<<"p",
         "r", "e", "v", "i", "o", "u", "s">>)>>, <<Lit(<<"a", "b", "o", "v",
         "e">>)>>, <<Lit(<<"a", "l", "l">>)>>>>), SpacePlus,
         Alt(<<<<Lit(<<"i", "n", "s", "t", "r", "u", "c", "t", "i", "o",
         "n">>), Opt("s")>>, <<Lit(<<"p", "r", "o", "m", "p", "t">>),
         Opt("s")>>>>)>>,
       \* disregard\s+(your|the)\s+(rules|guidelines|instructions)
       <<Lit(<<"d", "i", "s", "r", "e", "g", "a", "r", "d">>), SpacePlus,
         Alt(<<<<Lit(<<"y", "o", "u", "r">>)>>, <<Lit(<<"t", "h",
         "e">>)>>>>), SpacePlus, Alt(<<<<Lit(<<"r", "u", "l", "e", "s">>)>>,
         <<Lit(<<"g", "u", "i", "d", "e", "l", "i", "n", "e", "s">>)>>,
         <<Lit(<<"i", "n", "s", "t", "r", "u", "c", "t", "i", "o", "n",
         "s">>)>>>>)>>,
       \* you\s+are\s+now\s+
       <<Lit(<<"y", "o", "u">>), SpacePlus, Lit(<<"a", "r", "e">>),
         SpacePlus, Lit(<<"n", "o", "w">>), SpacePlus>>,
       \* pretend\s+(you're|you\s+are|to\s+be)
       <<Lit(<<"p", "r", "e", "t", "e", "n", "d">>), SpacePlus,
         Alt(<<<<Lit(<<"y", "o", "u", "'", "r", "e">>)>>, <<Lit(<<"y", "o",
         "u">>), SpacePlus, Lit(<<"a", "r", "e">>)>>, <<Lit(<<"t", "o">>),
         SpacePlus, Lit(<<"b", "e">>)>>>>)>>,
       \* act\s+as\s+(if|though)
       <<Lit(<<"a", "c", "t">>), SpacePlus, Lit(<<"a", "s">>), SpacePlus,
         Alt(<<<<Lit(<<"i", "f">>)>>, <<Lit(<<"t", "h", "o", "u", "g",
         "h">>)>>>>)>>,
       \* system\s*:\s*
       <<Lit(<<"s", "y", "s", "t", "e", "m">>), SpaceStar, Lit(<<":">>),
         SpaceStar>>,
       \* <\s*system\s*>
       <<Lit(<<"<">>), SpaceStar, Lit(<<"s", "y", "s", "t", "e", "m">>),
         SpaceStar, Lit(<<">">>)>>,
       \* </?\s*prompt\s*>
       <<Lit(<<"<">>), Opt("/"), SpaceStar, Lit(<<"p", "r", "o", "m", "p",
         "t">>), SpaceStar, Lit(<<">">>)>>,
       \* forget\s+(everything|all|your)
       <<Lit(<<"f", "o", "r", "g", "e", "t">>), SpacePlus, Alt(<<<<Lit(<<"e",
         "v", "e", "r", "y", "t", "h", "i", "n", "g">>)>>, <<Lit(<<"a", "l",
         "l">>)>>, <<Lit(<<"y", "o", "u", "r">>)>>>>)>>,
       \* new\s+personality
       <<Lit(<<"n", "e", "w">>), SpacePlus, Lit(<<"p", "e", "r", "s", "o",
         "n", "a", "l", "i", "t", "y">>)>>,
       \* jailbreak
       <<Lit(<<"j", "a", "i", "l", "b", "r", "e", "a", "k">>)>>,
       \* dan\s+mode
       <<Lit(<<"d", "a", "n">>), SpacePlus, Lit(<<"m", "o", "d", "e">>)>> >>

DANGEROUS_PATTERNS ==
       \* (crypto|bitcoin|monero)\s*(miner|mining)
    << <<Alt(<<<<Lit(<<"c", "r", "y", "p", "t", "o">>)>>, <<Lit(<<"b", "i",
         "t", "c", "o", "i", "n">>)>>, <<Lit(<<"m", "o", "n", "e", "r",
         "o">>)>>>>), SpaceStar, Lit(<<"m", "i", "n">>), Alt(<<<<Lit(<<"e",
         "r">>)>>, <<Lit(<<"i", "n", "g">>)>>>>)>>,
       \* keylog(ger|ging)
       <<Lit(<<"k", "e", "y", "l", "o", "g">>), Lit(<<"g">>),
         Alt(<<<<Lit(<<"e", "r">>)>>, <<Lit(<<"i", "n", "g">>)>>>>)>>,
       \* ransomware
       <<Lit(<<"r", "a", "n", "s", "o", "m", "w", "a", "r", "e">>)>>,
       \* malware
       <<Lit(<<"m", "a", "l", "w", "a", "r", "e">>)>>,
       \* botnet
       <<Lit(<<"b", "o", "t", "n", "e", "t">>)>>,
       \* reverse\s*shell
       <<Lit(<<"r", "e", "v", "e", "r", "s", "e">>), SpaceStar, Lit(<<"s",
         "h", "e", "l", "l">>)>>,
       \* shell\s*code
       <<Lit(<<"s", "h", "e", "l", "l">>), SpaceStar, Lit(<<"c", "o", "d",
         "e">>)>>,
       \* exploit\s*(kit|code)
       <<Lit(<<"e", "x", "p", "l", "o", "i", "t">>), SpaceStar,
         Alt(<<<<Lit(<<"k", "i", "t">>)>>, <<Lit(<<"c", "o", "d",
         "e">>)>>>>)>>,
       \* phishing
       <<Lit(<<"p", "h", "i", "s", "h", "i", "n", "g">>)>>,
       \* credential\s*(steal|harvest|capture)
       <<Lit(<<"c", "r", "e", "d", "e", "n", "t", "i", "a", "l">>),
         SpaceStar, Alt(<<<<Lit(<<"s", "t", "e", "a", "l">>)>>, <<Lit(<<"h",
         "a", "r", "v", "e", "s", "t">>)>>, <<Lit(<<"c", "a", "p", "t", "u",
         "r", "e">>)>>>>)>>,
       \* (fake|clone|replica).*(login|signin|sign-in)
       <<Alt(<<<<Lit(<<"f", "a", "k", "e">>)>>, <<Lit(<<"c", "l", "o", "n",
         "e">>)>>, <<Lit(<<"r", "e", "p", "l", "i", "c", "a">>)>>>>),
         AnyStar, Alt(<<<<Lit(<<"l", "o", "g", "i", "n">>)>>, <<Lit(<<"s",
         "i", "g", "n", "i", "n">>)>>, <<Lit(<<"s", "i", "g", "n", "-", "i",
         "n">>)>>>>)>>,
       \* (fake|clone|replica).*(paypal|stripe|venmo|cashapp|zelle)
       <<Alt(<<<<Lit(<<"f", "a", "k", "e">>)>>, <<Lit(<<"c", "l", "o", "n",
         "e">>)>>, <<Lit(<<"r", "e", "p", "l", "i", "c", "a">>)>>>>),
         AnyStar, Alt(<<<<Lit(<<"p", "a", "y", "p", "a", "l">>)>>,
         <<Lit(<<"s", "t", "r", "i", "p", "e">>)>>, <<Lit(<<"v", "e", "n",
         "m", "o">>)>>, <<Lit(<<"c", "a", "s", "h", "a", "p", "p">>)>>,
         <<Lit(<<"z", "e", "l", "l", "e">>)>>>>)>>,
       \* (fake|clone|replica).*(google|facebook|instagram|twitter|tiktok)
       <<Alt(<<<<Lit(<<"f", "a", "k", "e">>)>>, <<Lit(<<"c", "l", "o", "n",
         "e">>)>>, <<Lit(<<"r", "e", "p", "l", "i", "c", "a">>)>>>>),
         AnyStar, Alt(<<<<Lit(<<"g", "o", "o", "g", "l", "e">>)>>,
         <<Lit(<<"f", "a", "c", "e", "b", "o", "o", "k">>)>>, <<Lit(<<"i",
         "n", "s", "t", "a", "g", "r", "a", "m">>)>>, <<Lit(<<"t", "w", "i",
         "t", "t", "e", "r">>)>>, <<Lit(<<"t", "i", "k", "t", "o",
         "k">>)>>>>)>>,
       \* (fake|clone|replica).*(bank|chase|wellsfargo|bofa|citi)
       <<Alt(<<<<Lit(<<"f", "a", "k", "e">>)>>, <<Lit(<<"c", "l", "o", "n",
         "e">>)>>, <<Lit(<<"r", "e", "p", "l", "i", "c", "a">>)>>>>),
         AnyStar, Alt(<<<<Lit(<<"b", "a", "n", "k">>)>>, <<Lit(<<"c", "h",
         "a", "s", "e">>)>>, <<Lit(<<"w", "e", "l", "l", "s", "f", "a", "r",
         "g", "o">>)>>, <<Lit(<<"b", "o", "f", "a">>)>>, <<Lit(<<"c", "i",
         "t", "i">>)>>>>)>>,
       \* (fake|clone|replica).*(amazon|apple|microsoft)
       <<Alt(<<<<Lit(<<"f", "a", "k", "e">>)>>, <<Lit(<<"c", "l", "o", "n",
         "e">>)>>, <<Lit(<<"r", "e", "p", "l", "i", "c", "a">>)>>>>),
         AnyStar, Alt(<<<<Lit(<<"a", "m", "a", "z", "o", "n">>)>>,
         <<Lit(<<"a", "p", "p", "l", "e">>)>>, <<Lit(<<"m", "i", "c", "r",
         "o", "s", "o", "f", "t">>)>>>>)>>,
       \* password\s*(harvester|stealer|grabber)
       <<Lit(<<"p", "a", "s", "s", "w", "o", "r", "d">>), SpaceStar,
         Alt(<<<<Lit(<<"h", "a", "r", "v", "e", "s", "t", "e", "r">>)>>,
         <<Lit(<<"s", "t", "e", "a", "l", "e", "r">>)>>, <<Lit(<<"g", "r",
         "a", "b", "b", "e", "r">>)>>>>)>>,
       \* credit\s*card\s*(skimmer|stealer|generator)
       <<Lit(<<"c", "r", "e", "d", "i", "t">>), SpaceStar, Lit(<<"c", "a",
         "r", "d">>), SpaceStar, Alt(<<<<Lit(<<"s", "k", "i", "m", "m", "e",
         "r">>)>>, <<Lit(<<"s", "t", "e", "a", "l", "e", "r">>)>>,
         <<Lit(<<"g", "e", "n", "e", "r", "a", "t", "o", "r">>)>>>>)>>,
       \* ssn\s*(generator|stealer)
       <<Lit(<<"s", "s", "n">>), SpaceStar, Alt(<<<<Lit(<<"g", "e", "n", "e",
         "r", "a", "t", "o", "r">>)>>, <<Lit(<<"s", "t", "e", "a", "l", "e",
         "r">>)>>>>)>>,
       \* identity\s*theft
       <<Lit(<<"i", "d", "e", "n", "t", "i", "t", "y">>), SpaceStar,
         Lit(<<"t", "h", "e", "f", "t">>)>>,
       \* (child|cp)\s*(porn|exploitation)
       <<Lit(<<"c">>), Alt(<<<<Lit(<<"h", "i", "l", "d">>)>>,
         <<Lit(<<"p">>)>>>>), SpaceStar, Alt(<<<<Lit(<<"p", "o", "r",
         "n">>)>>, <<Lit(<<"e", "x", "p", "l", "o", "i", "t", "a", "t", "i",
         "o", "n">>)>>>>)>>,
       \* drug\s*(marketplace|shop|store)
       <<Lit(<<"d", "r", "u", "g">>), SpaceStar, Alt(<<<<Lit(<<"m", "a", "r",
         "k", "e", "t", "p", "l", "a", "c", "e">>)>>, <<Lit(<<"s", "h", "o",
         "p">>)>>, <<Lit(<<"s", "t", "o", "r", "e">>)>>>>)>>,
       \* weapon\s*(shop|store|marketplace)
       <<Lit(<<"w", "e", "a", "p", "o", "n">>), SpaceStar, Alt(<<<<Lit(<<"s",
         "h", "o", "p">>)>>, <<Lit(<<"s", "t", "o", "r", "e">>)>>,
         <<Lit(<<"m", "a", "r", "k", "e", "t", "p", "l", "a", "c",
         "e">>)>>>>)>> >>

WARNING_PATTERNS ==
       \* document\.cookie
    << <<Lit(<<"d", "o", "c", "u", "m", "e", "n", "t", ".", "c", "o", "o",
         "k", "i", "e">>)>>,
       \* localStorage\.(get|set)Item
       <<Lit(<<"l", "o", "c", "a", "l", "S", "t", "o", "r", "a", "g", "e",
         ".">>), Alt(<<<<Lit(<<"g", "e", "t">>)>>, <<Lit(<<"s", "e",
         "t">>)>>>>), Lit(<<"I", "t", "e", "m">>)>>,
       \* eval\s*\(
       <<Lit(<<"e", "v", "a", "l">>), SpaceStar, Lit(<<"(">>)>>,
       \* new\s+Function\s*\(
       <<Lit(<<"n", "e", "w">>), SpacePlus, Lit(<<"F", "u", "n", "c", "t",
         "i", "o", "n">>), SpaceStar, Lit(<<"(">>)>>,
       \* innerHTML\s*=
       <<Lit(<<"i", "n", "n", "e", "r", "H", "T", "M", "L">>), SpaceStar,
         Lit(<<"=">>)>> >>

ModerationResult(allowed, reason, flags) ==
    [allowed |-> allowed, reason |-> reason, flags |-> flags]

check_prompt(prompt) ==
    LET prompt_lower == Lower(prompt)
        found(patterns) ==
            \E n \in DOMAIN patterns : re_search(patterns[n], prompt_lower)
        warned == SelectSeq(WARNING_PATTERNS,
                            LAMBDA p : re_search(p, prompt_lower))
    IN  IF found(INJECTION_PATTERNS)
        THEN ModerationResult(FALSE, "Request contains disallowed patterns",
                              <<"injection">>)
        ELSE IF found(DANGEROUS_PATTERNS)
        THEN ModerationResult(FALSE,
                              "This type of application cannot be built",
                              <<"dangerous">>)
        ELSE ModerationResult(TRUE, "None",
                              [n \in DOMAIN warned |-> "suspicious_keywords"])

\* The prompts handed to check_prompt are made of at most MaxPieces of
\* these pieces.
Pieces ==
    << <<"b", "u", "i", "l", "d", " ", "a", " ", "t", "o", "d", "o", " ",
         "a", "p", "p">>,
       <<"j", "a", "i", "l", "b", "r", "e", "a", "k">>,
       <<"J", "A", "I_dot", "L", "B", "R", "E", "A", "K">>,
       <<"d", "a", "n">>,
       <<" ">>,
       <<"m", "o", "d", "e">>,
       <<"P", "h", "I", "s", "H", "i", "N", "g">>,
       <<"f", "a", "k", "e">>,
       <<"\n">>,
       <<"l", "o", "g", "i", "n">>,
       <<"e", "v", "a", "l", "(">> >>

\* No call of check_prompt has returned yet.
NoResult == ModerationResult(TRUE, "unchecked", <<>>)

\* The (allowed, reason) pair check_prompt of the worker returns.
Verdict(allowed, reason) == [allowed |-> allowed, reason |-> reason]

\* No call of the worker's check_prompt has returned yet.
NoVerdict == Verdict(TRUE, "unchecked")

\* The caller writes one more piece of the prompt.
ModAppend(n) ==
    /\ mResult = NoResult
    /\ mWorkerResult = NoVerdict
    /\ mPieces < MaxPieces
    /\ mPrompt' = mPrompt \o Pieces[n]
    /\ mPieces' = mPieces + 1
    /\ UNCHANGED <<mResult, mWorkerResult>>

\* moderator.check_prompt(prompt)
ModCheckPrompt ==
    /\ mResult = NoResult
    /\ mResult' = check_prompt(mPrompt)
    /\ UNCHANGED <<mPrompt, mPieces, mWorkerResult>>

(***************************************************************************)
(* ContentModerator.check_prompt of the worker                             *)
(* (apps/worker/mention_processor.py): its own, shorter pattern lists, and *)
(* re.search without flags on the lowered prompt.                          *)
(***************************************************************************)
\* As MatchFrom, with characters compared as they are.
RECURSIVE MatchFromExact(_, _, _, _), AtomEndsExact(_, _, _)
AtomEndsExact(a, s, i) ==
    CASE a.t = "lit" ->
           IF /\ i + Len(a.s) - 1 <= Len(s)
              /\ \A n \in 1..Len(a.s) : s[i + n - 1] = a.s[n]
           THEN {i + Len(a.s)} ELSE {}
      [] a.t = "many" ->
           {j \in (i + a.min)..(Len(s) + 1) :
               \A n \in i..(j - 1) : InClass(a.cls, s[n])}
      [] a.t = "opt" ->
           {i} \cup (IF i <= Len(s) /\ s[i] = a.c THEN {i + 1} ELSE {})
      [] a.t = "alt" ->
           UNION {MatchFromExact(a.xs[m], 1, s, i) : m \in DOMAIN a.xs}

MatchFromExact(atoms, k, s, i) ==
    IF k > Len(atoms) THEN {i}
    ELSE UNION {MatchFromExact(atoms, k + 1, s, j) :
                   j \in AtomEndsExact(atoms[k], s, i)}

\* re.search(pattern, s)
re_search_exact(pattern, s) ==
    \E i \in 1..(Len(s) + 1) : MatchFromExact(pattern, 1, s, i) # {}

WORKER_DANGEROUS_PATTERNS ==
       \* (crypto|bitcoin)\s*(miner|mining)
    << <<Alt(<<<<Lit(<<"c", "r", "y", "p", "t", "o">>)>>, <<Lit(<<"b", "i",
         "t", "c", "o", "i", "n">>)>>>>), SpaceStar, Lit(<<"m", "i", "n">>),
         Alt(<<<<Lit(<<"e", "r">>)>>, <<Lit(<<"i", "n", "g">>)>>>>)>>,
       \* keylog(ger|ging)
       <<Lit(<<"k", "e", "y", "l", "o", "g">>), Lit(<<"g">>),
         Alt(<<<<Lit(<<"e", "r">>)>>, <<Lit(<<"i", "n", "g">>)>>>>)>>,
       \* phishing
       <<Lit(<<"p", "h", "i", "s", "h", "i", "n", "g">>)>>,
       \* (fake|clone).*(login|signin|paypal|google|facebook|bank)
       <<Alt(<<<<Lit(<<"f", "a", "k", "e">>)>>, <<Lit(<<"c", "l", "o", "n",
         "e">>)>>>>), AnyStar, Alt(<<<<Lit(<<"l", "o", "g", "i", "n">>)>>,
         <<Lit(<<"s", "i", "g", "n", "i", "n">>)>>, <<Lit(<<"p", "a", "y",
         "p", "a", "l">>)>>, <<Lit(<<"g", "o", "o", "g", "l", "e">>)>>,
         <<Lit(<<"f", "a", "c", "e", "b", "o", "o", "k">>)>>, <<Lit(<<"b",
         "a", "n", "k">>)>>>>)>>,
       \* credential\s*(steal|harvest)
       <<Lit(<<"c", "r", "e", "d", "e", "n", "t", "i", "a", "l">>),
         SpaceStar, Alt(<<<<Lit(<<"s", "t", "e", "a", "l">>)>>, <<Lit(<<"h",
         "a", "r", "v", "e", "s", "t">>)>>>>)>>,
       \* ransomware
       <<Lit(<<"r", "a", "n", "s", "o", "m", "w", "a", "r", "e">>)>>,
       \* reverse\s*shell
       <<Lit(<<"r", "e", "v", "e", "r", "s", "e">>), SpaceStar, Lit(<<"s",
         "h", "e", "l", "l">>)>> >>

WORKER_INJECTION_PATTERNS ==
       \* ignore\s+(previous|above|all)\s+(instructions?|prompts?)
    << <<Lit(<<"i", "g", "n", "o", "r", "e">>), SpacePlus, Alt(<<<<Lit(<<"p",
         "r", "e", "v", "i", "o", "u", "s">>)>>, <<Lit(<<"a", "b", "o", "v",
         "e">>)>>, <<Lit(<<"a", "l", "l">>)>>>>), SpacePlus,
         Alt(<<<<Lit(<<"i", "n", "s", "t", "r", "u", "c", "t", "i", "o",
         "n">>), Opt("s")>>, <<Lit(<<"p", "r", "o", "m", "p", "t">>),
         Opt("s")>>>>)>>,
       \* you\s+are\s+now\s+
       <<Lit(<<"y", "o", "u">>), SpacePlus, Lit(<<"a", "r", "e">>),
         SpacePlus, Lit(<<"n", "o", "w">>), SpacePlus>>,
       \* pretend\s+(you're|to\s+be)
       <<Lit(<<"p", "r", "e", "t", "e", "n", "d">>), SpacePlus,
         Alt(<<<<Lit(<<"y", "o", "u", "'", "r", "e">>)>>, <<Lit(<<"t",
         "o">>), SpacePlus, Lit(<<"b", "e">>)>>>>)>> >>

worker_check_prompt(prompt) ==
    LET prompt_lower == Lower(prompt)
        found(patterns) ==
            \E n \in DOMAIN patterns :
                re_search_exact(patterns[n], prompt_lower)
    IN  IF found(WORKER_INJECTION_PATTERNS)
        THEN Verdict(FALSE, "Request contains disallowed patterns")
        ELSE IF found(WORKER_DANGEROUS_PATTERNS)
        THEN Verdict(FALSE, "This type of application cannot be built")
        ELSE Verdict(TRUE, "")

\* self.builder.moderator.check_prompt(prompt) in handle_mention
ModWorkerCheckPrompt ==
    /\ mWorkerResult = NoVerdict
    /\ mWorkerResult' = worker_check_prompt(mPrompt)
    /\ UNCHANGED <<mPrompt, mPieces, mResult>>

\* What the moderator leaves alone.
NotModerator ==
    <<dbVars, replies, histVars, envVars, webhookVars, workerVars, adminVars,
      apiVars, opsVars, limitVars,
      parseVars, wsVars, readyVars, destroyVars, statusVars, notifyVars,
      dedupVars, sweepVars>>

(***************************************************************************)
(* The parsers of the model's answer: BuilderService._parse_response       *)
(* (services/builder.py), AIBuilder.generate (worker/mention_processor.py) *)
(* and quick_build, regenerate_project and process_deployment              *)
(* (routers/admin.py).  A text is a sequence of symbols: a symbol is one   *)
(* of the characters the parsers and json.loads look for (braces, quote,   *)
(* backslash, colon, comma, newline), a code fence, or a run of other      *)
(* characters taken as a whole ("json", "files", "index.html", ...).       *)
(***************************************************************************)
Q == "\""
BS == "\\"
\* Three backquotes in a row.
FENCE == "fence"

\* Runs of characters that the regular expression \w+ takes whole.
WordSyms == {"json", "app", "files", "entry_point", "name", "n", "42"}

\* JSON values as Python holds them: None, a number, a str, a dict.
JNull == [k |-> "null", s |-> <<>>, m |-> <<>>]
JNum == [k |-> "num", s |-> <<>>, m |-> <<>>]
JStr(x) == [k |-> "str", s |-> x, m |-> <<>>]
JObj(f) == [k |-> "obj", s |-> <<>>, m |-> f]

IsDict(v) == v.k = "obj"
Has(v, key) == IsDict(v) /\ key \in DOMAIN v.m
\* d.get(key, default)
Get(v, key, default) == IF key \in DOMAIN v.m THEN v.m[key] ELSE default
\* d[key] = x
Put(f, key, x) == [y \in DOMAIN f \cup {key} |-> IF y = key THEN x ELSE f[y]]

\* str.strip(), str.find(), str.rfind() (0: not found), slices.
RECURSIVE LStrip(_)
LStrip(s) ==
    IF s # <<>> /\ Head(s) \in Whitespace THEN LStrip(Tail(s)) ELSE s

RECURSIVE RStrip(_)
RStrip(s) ==
    IF s # <<>> /\ s[Len(s)] \in Whitespace
    THEN RStrip(SubSeq(s, 1, Len(s) - 1)) ELSE s

Strip(s) == RStrip(LStrip(s))
StartsWith(s, c) == s # <<>> /\ s[1] = c
EndsWith(s, c) == s # <<>> /\ s[Len(s)] = c
Positions(s, c) == {i \in 1..Len(s) : s[i] = c}
Find(s, c) ==
    IF Positions(s, c) = {} THEN 0
    ELSE CHOOSE i \in Positions(s, c) : \A j \in Positions(s, c) : i <= j
RFind(s, c) ==
    IF Positions(s, c) = {} THEN 0
    ELSE CHOOSE i \in Positions(s, c) : \A j \in Positions(s, c) : i >= j
From(s, i) == SubSeq(s, i, Len(s))
\* s.split(c)[0]
UpTo(s, c) == IF Find(s, c) = 0 THEN s ELSE SubSeq(s, 1, Find(s, c) - 1)

(***************************************************************************)
(* json.loads: a string is closed by the first quote that is not escaped,  *)
(* a raw newline inside a string is an error, and so is anything after     *)
(* the value but white space.                                              *)
(***************************************************************************)
JFail == [ok |-> FALSE, v |-> JNull, next |-> 0]
JOk(v, next) == [ok |-> TRUE, v |-> v, next |-> next]

RECURSIVE SkipWs(_, _)
SkipWs(s, i) ==
    IF i <= Len(s) /\ s[i] \in Whitespace THEN SkipWs(s, i + 1) ELSE i

\* Adjacent runs of digits are one number.
RECURSIVE SkipDigits(_, _)
SkipDigits(s, i) ==
    IF i <= Len(s) /\ s[i] = "42" THEN SkipDigits(s, i + 1) ELSE i

\* The string whose opening quote is at i - 1; acc is what was decoded.
RECURSIVE ScanString(_, _, _)
ScanString(s, i, acc) ==
    IF i > Len(s) \/ s[i] = "\n" THEN JFail
    ELSE IF s[i] = Q THEN JOk(JStr(acc), i + 1)
    ELSE IF s[i] = BS
    THEN IF i + 1 > Len(s) THEN JFail
         ELSE IF s[i + 1] \in {Q, BS}
         THEN ScanString(s, i + 2, Append(acc, s[i + 1]))
         ELSE IF s[i + 1] = "n" THEN ScanString(s, i + 2, Append(acc, "\n"))
         ELSE JFail
    ELSE ScanString(s, i + 1, Append(acc, s[i]))

RECURSIVE ParseValue(_, _), ParseMembers(_, _, _)
ParseValue(s, i0) ==
    LET i == SkipWs(s, i0)
    IN  IF i > Len(s) THEN JFail
        ELSE IF s[i] = Q THEN ScanString(s, i + 1, <<>>)
        ELSE IF s[i] = "42" THEN JOk(JNum, SkipDigits(s, i))
        ELSE IF s[i] = "{"
        THEN LET j == SkipWs(s, i + 1)
             IN  IF j <= Len(s) /\ s[j] = "}" THEN JOk(JObj(<<>>), j + 1)
                 ELSE ParseMembers(s, j, <<>>)
        ELSE JFail

\* The members of an object from the key at i on; f holds those read.
ParseMembers(s, i, f) ==
    IF i > Len(s) \/ s[i] # Q THEN JFail
    ELSE LET key == ScanString(s, i + 1, <<>>)
             c == SkipWs(s, key.next)
             val == ParseValue(s, c + 1)
             d == SkipWs(s, val.next)
             g == Put(f, key.v.s, val.v)
         IN  IF ~key.ok \/ c > Len(s) THEN JFail
             ELSE IF s[c] # ":" THEN JFail
             ELSE IF ~val.ok \/ d > Len(s) THEN JFail
             ELSE IF s[d] = "}" THEN JOk(JObj(g), d + 1)
             ELSE IF s[d] = "," THEN ParseMembers(s, SkipWs(s, d + 1), g)
             ELSE JFail

json_loads(s) ==
    LET r == ParseValue(s, 1)
    IN  IF r.ok /\ SkipWs(s, r.next) > Len(s) THEN r ELSE JFail

\* json.dumps of the characters of a str.
RECURSIVE Escape(_)
Escape(s) ==
    IF s = <<>> THEN <<>>
    ELSE (IF Head(s) \in {Q, BS} THEN <<BS, Head(s)>>
          ELSE IF Head(s) = "\n" THEN <<BS, "n">>
          ELSE <<Head(s)>>) \o Escape(Tail(s))

(***************************************************************************)
(* What a parser hands to its caller: a value, or an exception.            *)
(***************************************************************************)
Returned(who, v) == [who |-> who, raised |-> FALSE, v |-> v]
Raised(who) == [who |-> who, raised |-> TRUE, v |-> JNull]

FILES == <<"files">>
ENTRY_POINT == <<"entry_point">>
INDEX_HTML == <<"index.html">>

\* The fallback file-set of _parse_response: a page that shows the text.
BuilderFallback(text) ==
    JObj((<<"name">> :> JStr(<<"Generated Project">>))
         @@ (<<"description">> :> JStr(<<"AI-generated project">>))
         @@ (FILES :> JObj(INDEX_HTML :> JStr(<<"<pre>">> \o text
                                                \o <<"</pre>">>)))
         @@ (ENTRY_POINT :> JStr(INDEX_HTML))
         @@ (<<"tech_stack">> :> JObj(<<"type">> :> JStr(<<"static">>)))
         @@ (<<"refined_prompt">> :> JStr(<<>>)))

\* The places of a fence followed by json in response_text, and the text
\* after the first of them.
FenceJsonAt(s) == {i \in 1..(Len(s) - 1) : s[i] = FENCE /\ s[i + 1] = "json"}
AfterFenceJson(s) ==
    From(s, 2 + CHOOSE i \in FenceJsonAt(s) : \A j \in FenceJsonAt(s) : i <= j)

\* Adjacent runs of word characters are one word.
RECURSIVE SkipWord(_)
SkipWord(s) ==
    IF s # <<>> /\ Head(s) \in WordSyms THEN SkipWord(Tail(s)) ELSE s

\* Group 1 of the search for a code block: what stands between the first
\* fence, with the word and the white space after it, and the next fence.
\* There is a match when the text has two fences.
FirstCodeBlock(s) ==
    UpTo(LStrip(SkipWord(From(s, Find(s, FENCE) + 1))), FENCE)

\* BuilderService._parse_response
parse_response(response_text) ==
    LET direct == json_loads(Strip(response_text))
        block ==
            IF FenceJsonAt(response_text) # {}
            THEN json_loads(Strip(UpTo(AfterFenceJson(response_text), FENCE)))
            ELSE IF Cardinality(Positions(response_text, FENCE)) >= 2
            THEN json_loads(Strip(FirstCodeBlock(response_text)))
            ELSE JFail
        start == Find(response_text, "{")
        end == RFind(response_text, "}")
        braces == IF start # 0 /\ end >= start
                  THEN json_loads(SubSeq(response_text, start, end))
                  ELSE JFail
    IN  IF direct.ok THEN Returned("parse_response", direct.v)
        ELSE IF block.ok THEN Returned("parse_response", block.v)
        ELSE IF braces.ok THEN Returned("parse_response", braces.v)
        ELSE Returned("parse_response", BuilderFallback(response_text))

\* The parsing at the end of AIBuilder.generate: the text between the first
\* two fences, without a leading "json"; on any error the text becomes the
\* entry file.
generate_parse(response) ==
    LET text == Strip(response)
        inner == IF StartsWith(text, FENCE)
                 THEN UpTo(Tail(text), FENCE) ELSE text
        body == IF StartsWith(inner, "json") /\ StartsWith(text, FENCE)
                THEN Tail(inner) ELSE inner
        r == json_loads(body)
    IN  IF r.ok THEN Returned("generate", r.v)
        ELSE Returned("generate",
                 JObj((<<"name">> :> JStr(<<"Generated App">>))
                      @@ (<<"description">> :> JStr(<<"prompt">>))
                      @@ (ENTRY_POINT :> JStr(INDEX_HTML))
                      @@ (FILES :> JObj(INDEX_HTML :> JStr(body)))))

\* The clean-up of the fences in quick_build.
QuickClean(response) ==
    LET text == Strip(response)
        a == IF StartsWith(text, FENCE)
             THEN IF Find(text, "\n") # 0 THEN From(text, Find(text, "\n") + 1)
                  ELSE Tail(text)
             ELSE text
        b == IF EndsWith(a, FENCE) THEN SubSeq(a, 1, Len(a) - 1) ELSE a
    IN  Strip(b)

\* The parsing in quick_build, with the result.get calls of its UPDATE.
quick_build_parse(response) ==
    LET text == QuickClean(response)
        direct == json_loads(text)
        start == Find(text, "{")
        end == RFind(text, "}")
        braces == IF start # 0 /\ end >= start
                  THEN json_loads(SubSeq(text, start, end)) ELSE JFail
        r == IF direct.ok THEN direct ELSE braces
    IN  IF r.ok /\ IsDict(r.v) THEN Returned("quick_build", r.v)
        ELSE Raised("quick_build")

\* The clean-up of the fences in regenerate_project and process_deployment.
AdminClean(response) ==
    LET text == Strip(response)
        a == IF StartsWith(text, FENCE) /\ Find(text, "\n") # 0
             THEN From(text, Find(text, "\n") + 1) ELSE text
        b == IF EndsWith(a, FENCE) THEN SubSeq(a, 1, Len(a) - 1) ELSE a
    IN  Strip(b)

\* The loop that counts braces from position i on: the position of the
\* brace that brings the depth back to 0, or 0.
RECURSIVE MatchingBrace(_, _, _)
MatchingBrace(s, i, depth) ==
    IF i > Len(s) THEN 0
    ELSE IF s[i] = "{" THEN MatchingBrace(s, i + 1, depth + 1)
    ELSE IF s[i] = "}"
    THEN IF depth = 1 THEN i ELSE MatchingBrace(s, i + 1, depth - 1)
    ELSE MatchingBrace(s, i + 1, depth)

\* The fallback file-set of regenerate_project and process_deployment.
AdminFallback ==
    JObj((<<"name">> :> JStr(<<"prompt">>))
         @@ (<<"description">> :> JStr(<<"prompt">>))
         @@ (ENTRY_POINT :> JStr(INDEX_HTML))
         @@ (FILES :> JObj(INDEX_HTML :> JStr(<<"<h1>", "prompt", "</h1>">>))))

\* json.loads, then the brace counting, then the test for a missing
\* result or a result without files: on a number the test raises
\* TypeError, in a str it looks for the characters of the word files.
AdminParse(who, response) ==
    LET cleaned == AdminClean(response)
        direct == json_loads(cleaned)
        start == Find(cleaned, "{")
        end == IF start = 0 THEN 0 ELSE MatchingBrace(cleaned, start, 0)
        braces == IF end > start
                  THEN json_loads(SubSeq(cleaned, start, end)) ELSE JFail
        r == IF direct.ok THEN direct ELSE braces
    IN  IF ~r.ok THEN Returned(who, AdminFallback)
        ELSE IF r.v.k = "num" THEN Raised(who)
        ELSE IF r.v.k = "str"
        THEN IF "files" \in {r.v.s[i] : i \in DOMAIN r.v.s}
             THEN Raised(who) ELSE Returned(who, AdminFallback)
        ELSE IF r.v.m = <<>> \/ FILES \notin DOMAIN r.v.m
        THEN Returned(who, AdminFallback)
        ELSE Returned(who, r.v)

\* process_deployment stores the files of the result and its entry
\* point, index.html when it names none.
process_deployment_parse(response) == AdminParse("process_deployment", response)

\* The entry file holds the word files between quotes.
HasQuotedFiles(s) ==
    \E i \in 1..(Len(s) - 2) : s[i] = Q /\ s[i + 1] = "files" /\ s[i + 2] = Q

\* files.get(result.get("entry_point", "index.html"), "") in
\* regenerate_project; a number stands for the calls that raise (files or
\* the entry file is not what .get or .strip needs, the key is a dict).
EntryFile(v) ==
    LET files == Get(v, FILES, JObj(<<>>))
        entry == Get(v, ENTRY_POINT, JStr(INDEX_HTML))
    IN  IF ~IsDict(files) \/ entry.k = "obj" THEN JNum
        ELSE IF entry.k # "str" THEN JStr(<<>>)
        ELSE IF Get(files, entry.s, JStr(<<>>)).k # "str" THEN JNum
        ELSE Get(files, entry.s, JStr(<<>>))

\* The result with the files, name and description of the nested file-set.
NestedFix(v, nested) ==
    JObj(Put(Put(Put(v.m, FILES, nested.m[FILES]),
                 <<"name">>,
                 Get(nested, <<"name">>, Get(v, <<"name">>, JNull))),
             <<"description">>,
             Get(nested, <<"description">>,
                 Get(v, <<"description">>, JNull))))

RegenerateFix(p, entry_file, nested) ==
    IF p.raised THEN p
    ELSE IF entry_file.k # "str" THEN Raised(p.who)
    ELSE IF /\ StartsWith(Strip(entry_file.s), "{")
            /\ HasQuotedFiles(entry_file.s)
            /\ nested.ok
            /\ Has(nested.v, FILES)
    THEN Returned(p.who, NestedFix(p.v, nested.v))
    ELSE p

RegenerateEntry(p, entry_file) ==
    RegenerateFix(p, entry_file, json_loads(entry_file.s))

RegenerateParsed(p) == RegenerateEntry(p, EntryFile(p.v))

\* regenerate_project: after the parsing, an entry file that holds a JSON
\* file-set gives its files, name and description to the result.
regenerate_project_parse(response) ==
    RegenerateParsed(AdminParse("regenerate_project", response))

(***************************************************************************)
(* The texts handed to the parsers: at most MaxTextPieces of the pieces    *)
(* below, or a file-set wrapped in a json fence, or a file-set given as    *)
(* the entry file of an outer file-set.                                    *)
(***************************************************************************)
\* The JSON text of a file-set with one file, its entry point.
FileSetText(entry, content) ==
    <<"{", Q, "files", Q, ":", "{", Q, entry, Q, ":", Q>> \o content
        \o <<Q, "}", ",", Q, "entry_point", Q, ":", Q, entry, Q, "}">>

\* A file-set whose file holds braces that do not balance.
BraceFileSetText == FileSetText("index.html", <<"if", "{", "x", "}", "}">>)

TextPieces ==
    << <<"prose">>,
       <<FENCE>>,
       <<"json">>,
       <<"\n">>,
       <<"{">>,
       <<"}">>,
       <<"42">>,
       FileSetText("index.html", <<"app">>),
       BraceFileSetText,
       FileSetText("index.html", <<"a", FENCE, "b">>),
       FileSetText("app.html", <<"app">>) >>

\* The value is a file-set: a dict whose files are a non-empty dict of
\* strs, one of them named by its entry point.
IsFileSet(v) ==
    /\ Has(v, FILES)
    /\ IsDict(v.m[FILES])
    /\ v.m[FILES].m # <<>>
    /\ \A f \in DOMAIN v.m[FILES].m : v.m[FILES].m[f].k = "str"
    /\ Get(v, ENTRY_POINT, JStr(INDEX_HTML)).k = "str"
    /\ Get(v, ENTRY_POINT, JStr(INDEX_HTML)).s \in DOMAIN v.m[FILES].m

IsFileSetText(s) ==
    StartsWith(s, "{") /\ json_loads(s).ok /\ IsFileSet(json_loads(s).v)

FenceWrap(s) == <<FENCE, "json", "\n">> \o s \o <<"\n", FENCE>>
DoubleWrap(s) == FileSetText("index.html", Escape(s))

NoOutput == Returned("none", JNull)

\* The model writes one more piece of its answer.
ParseAppend(n) ==
    /\ pOut = NoOutput
    /\ pWrap = "none"
    /\ pPieces < MaxTextPieces
    /\ pText' = pText \o TextPieces[n]
    /\ pPieces' = pPieces + 1
    /\ UNCHANGED <<pWrap, pInner, pOut, pRow>>

\* The model's answer is a file-set inside a json fence, or inside the
\* entry file of another file-set.
ParseWrap(kind) ==
    /\ pOut = NoOutput
    /\ pWrap = "none"
    /\ IsFileSetText(pText)
    /\ pInner' = pText
    /\ pWrap' = kind
    /\ pText' = IF kind = "fence" THEN FenceWrap(pText) ELSE DoubleWrap(pText)
    /\ UNCHANGED <<pPieces, pOut, pRow>>

\* The clean-up of the fences in do_refine: the first line goes with the
\* fence that opens the text.
RefineClean(response) ==
    LET text == Strip(response)
        a == IF StartsWith(text, FENCE)
             THEN IF Find(text, "\n") # 0 THEN From(text, Find(text, "\n") + 1)
                  ELSE <<>>
             ELSE text
        b == IF EndsWith(a, FENCE) THEN SubSeq(a, 1, Len(a) - 1) ELSE a
    IN  Strip(b)

\* The result that do_refine keeps when the answer gives it none.
RefineFallback(current_files) ==
    JObj((FILES :> current_files) @@ (<<"name">> :> JStr(<<"Updated Project">>)))

\* The test of do_refine for a missing result or a result without files,
\* which raises on a number, and the .get after it, which raises on a str.
RefineTest(v, current_files) ==
    IF v.k = "null" THEN Returned("do_refine", RefineFallback(current_files))
    ELSE IF v.k = "num" THEN Raised("do_refine")
    ELSE IF v.k = "str"
    THEN IF v.s = <<>> \/ "files" \notin {v.s[i] : i \in DOMAIN v.s}
         THEN Returned("do_refine", RefineFallback(current_files))
         ELSE Raised("do_refine")
    ELSE IF v.m = <<>> \/ FILES \notin DOMAIN v.m
    THEN Returned("do_refine", RefineFallback(current_files))
    ELSE Returned("do_refine", v)

\* What json.loads gave do_refine (r), or raised.
RefineLoaded(r, current_files) ==
    IF r.ok THEN RefineTest(r.v, current_files) ELSE Raised("do_refine")

\* The except branch of the parsing in do_refine: the text from the first
\* to the last brace, whose json.loads is not guarded.
RefineBraces(text, start, end, current_files) ==
    IF start = 0 \/ end < start
    THEN Returned("do_refine", RefineFallback(current_files))
    ELSE RefineLoaded(json_loads(SubSeq(text, start, end)), current_files)

RefineDirect(text, direct, current_files) ==
    IF direct.ok THEN RefineTest(direct.v, current_files)
    ELSE RefineBraces(text, Find(text, "{"), RFind(text, "}"), current_files)

RefineText(text, current_files) ==
    RefineDirect(text, json_loads(text), current_files)

\* The parsing in do_refine.
refine_parse(response, current_files) ==
    RefineText(RefineClean(response), current_files)

(***************************************************************************)
(* The write of each handler to its projects row, after the parsing.       *)
(***************************************************************************)
\* The row as the INSERT of a build leaves it: files '{}', entry point
\* 'index.html', status 'building'.
NewRow ==
    [status |-> "building", files |-> JObj(<<>>),
     entry_point |-> JStr(INDEX_HTML)]

\* files = result["files"], entry_point = result.get("entry_point",
\* "index.html"), deployment_status = status.
RowOf(result, status) ==
    [status |-> status, files |-> result.m[FILES],
     entry_point |-> Get(result, ENTRY_POINT, JStr(INDEX_HTML))]

\* result["files"] can be read.
HasFiles(out) == ~out.raised /\ IsDict(out.v) /\ Has(out.v, FILES)

\* create_project: check_code walks the items of the files, the row gets
\* them and goes live; any exception sets the row to failed.
create_project_row(row, out) ==
    IF HasFiles(out) /\ IsDict(out.v.m[FILES]) THEN RowOf(out.v, "live")
    ELSE [row EXCEPT !.status = "failed"]

\* handle_mention of the worker: ProjectSaver.complete_build, or
\* update_status(slug, "failed") in the except block.
complete_build_row(row, out) ==
    IF HasFiles(out) THEN RowOf(out.v, "deployed")
    ELSE [row EXCEPT !.status = "failed"]

\* quick_build: the UPDATE with result.get("files", {}); an HTTPException
\* leaves the row as it is.
quick_build_row(row, out) ==
    IF out.raised THEN row
    ELSE [status |-> "deployed", files |-> Get(out.v, FILES, JObj(<<>>)),
          entry_point |-> Get(out.v, ENTRY_POINT, JStr(INDEX_HTML))]

\* process_deployment: the UPDATE; its except block touches the mention
\* only.
process_deployment_row(row, out) ==
    IF HasFiles(out) THEN RowOf(out.v, "deployed") ELSE row

\* do_rebuild: regenerate_project and its UPDATE, or the UPDATE to failed
\* of the except block.
do_rebuild_row(row, out) ==
    IF HasFiles(out) THEN RowOf(out.v, "deployed")
    ELSE [row EXCEPT !.status = "failed"]

\* do_refine: the UPDATE of files and status, or the UPDATE of the status
\* alone in the except block; the entry point stays.
do_refine_row(row, out) ==
    IF out.raised THEN [row EXCEPT !.status = "deployed"]
    ELSE [row EXCEPT !.status = "deployed",
                     !.files = Get(out.v, FILES, row.files)]

\* The handler of the model's answer returns or raises (out) and leaves
\* its row (row).
ParseBy(out, row) ==
    /\ pOut = NoOutput
    /\ pOut' = out
    /\ pRow' = row
    /\ UNCHANGED <<pText, pPieces, pWrap, pInner>>

CreateProjectBy(out) == ParseBy(out, create_project_row(pRow, out))
CompleteBuildBy(out) == ParseBy(out, complete_build_row(pRow, out))
QuickBuildBy(out) == ParseBy(out, quick_build_row(pRow, out))
DoRebuildBy(out) == ParseBy(out, do_rebuild_row(pRow, out))
ProcessDeploymentBy(out) == ParseBy(out, process_deployment_row(pRow, out))
DoRefineBy(out) == ParseBy(out, do_refine_row(pRow, out))

\* create_project from the answer of the model on: _parse_response and the
\* write to the Project.
ParseResponse == CreateProjectBy(parse_response(pText))
\* handle_mention of the worker from the answer of the model on.
ParseGenerate == CompleteBuildBy(generate_parse(pText))
\* quick_build from the answer of the model on.
ParseQuickBuild == QuickBuildBy(quick_build_parse(pText))
\* do_rebuild from the answer of the model on.
ParseRegenerate == DoRebuildBy(regenerate_project_parse(pText))
\* process_deployment from the answer of the model on.
ParseProcessDeployment == ProcessDeploymentBy(process_deployment_parse(pText))
\* do_refine from the answer of the model on; the current files are those
\* of the row.
ParseRefine == DoRefineBy(refine_parse(pText, pRow.files))
\* do_refine when messages.create raises.
RefineFailed == DoRefineBy(Raised("messages.create"))

\* What the parsers leave alone.
NotParse ==
    <<dbVars, replies, histVars, envVars, webhookVars, workerVars, adminVars,
      apiVars, opsVars, limitVars, modVars,
      wsVars, readyVars, destroyVars, statusVars, workerModVars,
      notifyVars, dedupVars, sweepVars>>

(***************************************************************************)
(* The WebSocket feed of one build (apps/api/app/routers/ws.py):           *)
(* build_websocket registers a subscriber in _connections[build_id] and    *)
(* removes it when its client goes; broadcast_build_update sends a frame   *)
(* to the subscribers one after the other, each send an await during which *)
(* the handlers of the subscribers run.  Frames are numbered in the order  *)
(* the build broadcasts them; frame MaxFrames is the terminal one.         *)
(***************************************************************************)
Subs == 1..MaxSubs

\* index of the first x in s
IndexOf(s, x) == CHOOSE i \in 1..Len(s) : s[i] = x /\ \A j \in 1..(i - 1) : s[j] # x
\* list.remove(x)
Remove(s, x) == SubSeq(s, 1, IndexOf(s, x) - 1) \o SubSeq(s, IndexOf(s, x) + 1, Len(s))
InList(s, x) == \E i \in 1..Len(s) : s[i] = x

CastIdle == [pc |-> "idle", idx |-> 0, cur |-> 0, disc |-> <<>>,
             attached |-> FALSE]

\* The list that the for loop of the broadcast walks: the list object it
\* took from _connections, which is empty once its key was deleted.
Walked == IF wsCast.attached THEN wsConn.list ELSE <<>>

\* build_websocket up to its receive loop: accept, register.
WsConnect(s) ==
    /\ wsSubs[s].state = "none"
    /\ wsConn' = [key |-> TRUE,
                  list |-> IF wsConn.key THEN Append(wsConn.list, s) ELSE <<s>>]
    /\ wsSubs' = [wsSubs EXCEPT ![s].state = "open", ![s].joined = wsFrame]
    /\ UNCHANGED <<wsCast, wsFrame, wsRaised>>

\* The client stops reading: a send to it does not complete.
WsStall(s) ==
    /\ wsSubs[s].state = "open"
    /\ wsSubs' = [wsSubs EXCEPT ![s].state = "slow"]
    /\ UNCHANGED <<wsConn, wsCast, wsFrame, wsRaised>>

\* The connection breaks; the handler of the subscriber has not run yet.
WsBreak(s) ==
    /\ wsSubs[s].state \in {"open", "slow"}
    /\ wsSubs' = [wsSubs EXCEPT ![s].state = "broken"]
    /\ UNCHANGED <<wsConn, wsCast, wsFrame, wsRaised>>

\* build_websocket from WebSocketDisconnect on: the finally block removes
\* the subscriber and deletes the key of an empty list.
WsDisconnect(s) ==
    /\ wsSubs[s].state \in {"open", "slow", "broken"}
    /\ wsSubs' = [wsSubs EXCEPT ![s].state = "gone"]
    /\ LET list == IF wsConn.key /\ InList(wsConn.list, s)
                   THEN Remove(wsConn.list, s) ELSE wsConn.list
           deleted == wsConn.key /\ list = <<>>
       IN  /\ wsConn' = [key |-> wsConn.key /\ ~deleted, list |-> list]
           /\ wsCast' = IF deleted THEN [wsCast EXCEPT !.attached = FALSE]
                        ELSE wsCast
    /\ UNCHANGED <<wsFrame, wsRaised>>

\* broadcast_build_update is called with the next frame: it returns at once
\* when the build has no list, else it starts its for loop.
BroadcastStart ==
    /\ wsCast.pc = "idle"
    /\ wsFrame < MaxFrames
    /\ wsFrame' = wsFrame + 1
    /\ wsCast' = IF wsConn.key
                 THEN [CastIdle EXCEPT !.pc = "loop", !.idx = 1,
                                       !.attached = TRUE]
                 ELSE CastIdle
    /\ UNCHANGED <<wsConn, wsSubs, wsRaised>>

\* The clean-up after the loop: _connections[build_id] is read for each
\* subscriber that failed, which raises KeyError when the key is gone.
BroadcastCleanup ==
    IF wsCast.disc # <<>> /\ ~wsConn.key
    THEN wsRaised' = TRUE /\ UNCHANGED wsConn
    ELSE /\ wsConn' = [wsConn EXCEPT !.list =
                          SelectSeq(wsConn.list,
                                    LAMBDA x : ~InList(wsCast.disc, x))]
         /\ UNCHANGED wsRaised

\* The for loop takes its next subscriber and calls ws.send_text, or ends
\* and cleans up.
BroadcastNext ==
    /\ wsCast.pc = "loop"
    /\ IF wsCast.idx <= Len(Walked)
       THEN /\ wsCast' = [wsCast EXCEPT !.pc = "send",
                                        !.cur = Walked[wsCast.idx]]
            /\ UNCHANGED <<wsConn, wsRaised>>
       ELSE /\ BroadcastCleanup
            /\ wsCast' = CastIdle
    /\ UNCHANGED <<wsSubs, wsFrame>>

\* await ws.send_text(payload) is over: the frame reached an open
\* subscriber, or the send raised on a connection that is broken or closed.
BroadcastSent ==
    /\ wsCast.pc = "send"
    /\ wsSubs[wsCast.cur].state \in {"open", "broken", "gone"}
    /\ IF wsSubs[wsCast.cur].state = "open"
       THEN /\ wsSubs' = [wsSubs EXCEPT ![wsCast.cur].recv = Append(@, wsFrame)]
            /\ wsCast' = [wsCast EXCEPT !.pc = "loop", !.idx = @ + 1]
       ELSE /\ wsCast' = [wsCast EXCEPT !.pc = "loop", !.idx = @ + 1,
                                        !.disc = Append(@, wsCast.cur)]
            /\ UNCHANGED wsSubs
    /\ UNCHANGED <<wsConn, wsFrame, wsRaised>>

\* What the WebSocket feed leaves alone.
NotWs ==
    <<dbVars, replies, histVars, envVars, webhookVars, workerVars, adminVars,
      apiVars, opsVars, limitVars, modVars, parseVars,
      readyVars, destroyVars, statusVars,
      workerModVars, notifyVars, dedupVars, sweepVars>>

(***************************************************************************)
(* Deployments at Fly and their removal: DeployerService.destroy, called   *)
(* by delete_project and by CleanupService.cleanup_expired_projects.  A    *)
(* deployment id names a machine at Fly; the machine can be gone while the *)
(* row of its Project still holds the id.                                  *)
(***************************************************************************)
MachineIds == 1..MaxMachines

NoRow == [present |-> FALSE, deployment_id |-> 0]

\* What the DELETE request of destroy comes back with: the status of Fly's
\* answer, or an error of the HTTP client when Fly cannot be reached.
FlyAnswers(id) ==
    {IF id \in flyMachines THEN "200" ELSE "404", "error"}

\* DeployerService.destroy with raise_for_status on the answer: any status
\* but 2xx raises.
DestroyRaisesForStatus(answer) == answer # "200"

\* DeployerService.destroy raises: only when client.delete does; the
\* status of the answer is not looked at.
DestroyRaises(answer) == answer = "error"

\* The destroy calls of one operation: for each deployment id, the answer.
DestroyCalls(ids, answers) ==
    {[id |-> i, answer |-> answers[i], raised |-> DestroyRaises(answers[i])] :
        i \in ids}

\* The machines that are left after the calls.
MachinesAfter(calls) ==
    flyMachines \ {c.id : c \in {x \in calls : x.answer = "200"}}

NoOperation ==
    [op |-> "none", slugs |-> {}, calls |-> {}, committed |-> FALSE,
     result |-> "none"]

\* create_project: deployer.deploy made a machine and the row holds its id.
DeployProject(s) ==
    /\ ~dRows[s].present
    /\ dDeployed < MaxMachines
    /\ dDeployed' = dDeployed + 1
    /\ flyMachines' = flyMachines \cup {dDeployed + 1}
    /\ dRows' = [dRows EXCEPT ![s] = [present |-> TRUE,
                                      deployment_id |-> dDeployed + 1]]
    /\ UNCHANGED dLast

\* The mention pipelines insert a row that has no deployment id.
InsertUndeployed(s) ==
    /\ ~dRows[s].present
    /\ dRows' = [dRows EXCEPT ![s] = [present |-> TRUE, deployment_id |-> 0]]
    /\ UNCHANGED <<flyMachines, dDeployed, dLast>>

\* A machine goes away at Fly without the service.
MachineGone(id) ==
    /\ id \in flyMachines
    /\ flyMachines' = flyMachines \ {id}
    /\ UNCHANGED <<dRows, dDeployed, dLast>>

\* DELETE /{slug} -> delete_project: 404 without a row; else destroy when
\* the row has a deployment id, any exception of it ignored; then the
\* delete of the row and the commit, which can fail.
DeleteProject(s) ==
    IF ~dRows[s].present
    THEN /\ dLast' = [NoOperation EXCEPT !.op = "delete_project",
                                         !.slugs = {s}, !.result = "404"]
         /\ UNCHANGED <<flyMachines, dRows, dDeployed>>
    ELSE \E committed \in BOOLEAN :
         \E answers \in [{dRows[s].deployment_id} \ {0}
                            -> FlyAnswers(dRows[s].deployment_id)] :
            LET calls == DestroyCalls(DOMAIN answers, answers) IN
            /\ flyMachines' = MachinesAfter(calls)
            /\ dRows' = IF committed THEN [dRows EXCEPT ![s] = NoRow] ELSE dRows
            /\ dLast' = [op |-> "delete_project", slugs |-> {s},
                         calls |-> calls, committed |-> committed,
                         result |-> IF committed THEN "deleted" ELSE "500"]
            /\ UNCHANGED dDeployed

\* cleanup_expired_projects for the rows that have expired: destroy for
\* each row with a deployment id, any exception of it printed; the rows
\* are deleted and the commit ends the run.
CleanupExpiredProjects(expired) ==
    /\ expired # {}
    /\ \A s \in expired : dRows[s].present
    /\ \E answers \in [{dRows[s].deployment_id : s \in expired} \ {0}
                          -> {"200", "404", "error"}] :
          LET calls == DestroyCalls(DOMAIN answers, answers) IN
          /\ \A i \in DOMAIN answers : answers[i] \in FlyAnswers(i)
          /\ flyMachines' = MachinesAfter(calls)
          /\ dRows' = [s \in Slugs |-> IF s \in expired THEN NoRow ELSE dRows[s]]
          /\ dLast' = [op |-> "cleanup_expired_projects", slugs |-> expired,
                       calls |-> calls, committed |-> TRUE,
                       result |-> "deleted"]
          /\ UNCHANGED dDeployed

\* What the removal of deployments leaves alone.
NotDestroy ==
    <<dbVars, replies, histVars, envVars, webhookVars, workerVars, adminVars,
      apiVars, opsVars, limitVars, modVars, parseVars, wsVars, readyVars,
      statusVars, workerModVars, notifyVars, dedupVars, sweepVars>>

(***************************************************************************)
(* The build status read API: GET /builds/{build_id}/status, answered from *)
(* the Build of that id or, when there is none, from the Project whose     *)
(* slug is the given key.  A Build carries the id of its Project here.     *)
(***************************************************************************)
\* The ids a Build can have: the worker makes one Build for a mention.
BuildKeys == 1..MaxTweets

NoStatus == [by |-> "none", status |-> "none", progress |-> 0]

\* progress_map.get(build.status, 0)
progress_map_get(status) ==
    CASE status = "queued" -> 10
      [] status = "generating" -> 40
      [] status = "saving" -> 80
      [] status = "complete" -> 100
      [] OTHER -> 0

\* The answer built from a Build.
StatusOfBuild(b) ==
    [by |-> "id", status |-> builds[b].status,
     progress |-> progress_map_get(builds[b].status)]

\* The answer built from a Project: a deployed Project is shown as a
\* complete build, any other with its deployment status and progress 50.
StatusOfProject(i) ==
    [by |-> "slug",
     status |-> IF projects[i].status = "deployed" THEN "complete"
                ELSE projects[i].status,
     progress |-> IF projects[i].status = "deployed" THEN 100 ELSE 50]

\* get_build_status with the id of a Build as its key; 404 without one.
GetBuildStatusById(b) ==
    bsLast' = IF b \in DOMAIN builds THEN StatusOfBuild(b)
              ELSE [NoStatus EXCEPT !.by = "id", !.status = "404"]

\* get_build_status with a slug as its key.  Build.id is a uuid column:
\* the query for a Build with a key that is no uuid is either refused (the
\* request ends with 500) or finds no Build, and then the Project of that
\* slug answers; 404 without one, and scalar_one_or_none raises on more
\* than one.
GetBuildStatusBySlug(s) ==
    \/ bsLast' = [NoStatus EXCEPT !.by = "slug", !.status = "500"]
    \/ bsLast' = IF RowsOfSlug(s) = {}
                 THEN [NoStatus EXCEPT !.by = "slug", !.status = "404"]
                 ELSE IF Cardinality(RowsOfSlug(s)) > 1
                 THEN [NoStatus EXCEPT !.by = "slug", !.status = "500"]
                 ELSE StatusOfProject(CHOOSE i \in RowsOfSlug(s) : TRUE)

\* What the read API leaves alone.
NotStatus ==
    <<dbVars, replies, histVars, envVars, webhookVars, workerVars, adminVars,
      apiVars, opsVars, limitVars, modVars, parseVars, wsVars, readyVars,
      destroyVars,
      sweepVars,
      dedupVars,
      notifyVars,
      workerModVars>>

(***************************************************************************)
(* The dedup set of the worker in time: handle_mention's SADD and EXPIRE   *)
(* on the key twitter:processed (apps/worker/mention_processor.py).  The   *)
(* retention window of 86400 * 7 seconds is RetentionTicks ticks long.     *)
(***************************************************************************)
NotDedup ==
    <<dbVars, replies, histVars, envVars, webhookVars, workerVars, adminVars,
      apiVars, opsVars, limitVars, modVars, parseVars, wsVars, readyVars,
      destroyVars, statusVars, workerModVars, notifyVars, sweepVars>>

\* handle_mention of a mention that is not a member: SADD, then EXPIRE,
\* which sets the TTL of the whole key, whatever it was; a Redis error at EXPIRE leaves the member added and the TTL of
\* the key as it was (none, if SADD created the key).  A mention that is a
\* member returns after SISMEMBER with nothing written.
DedupAdd(t) ==
    /\ dedupAge[t] = -1
    /\ dedupAge' = [dedupAge EXCEPT ![t] = 0]
    /\ \/ dedupTtl' = RetentionTicks
       \/ dedupTtl' = IF dedupTtl = -2 THEN -1 ELSE dedupTtl

\* One tick of the clock: the members grow older; a key whose TTL runs
\* out is deleted with all its members.
DedupTick ==
    /\ \E t \in DedupIds : dedupAge[t] \in 0..RetentionTicks
    /\ IF dedupTtl = 1
       THEN /\ dedupAge' = [t \in DedupIds |-> -1]
            /\ dedupTtl' = -2
       ELSE /\ dedupAge' = [t \in DedupIds |->
                               IF dedupAge[t] \in 0..RetentionTicks
                               THEN dedupAge[t] + 1 ELSE dedupAge[t]]
            /\ dedupTtl' = IF dedupTtl > 1 THEN dedupTtl - 1 ELSE dedupTtl

(***************************************************************************)
(* The three builds that tell their requester of success, step by step in  *)
(* the order of their code: create_project (routers/projects.py), with the *)
(* WebSocket frames of the build; handle_mention of the worker and         *)
(* process_deployment of the admin router, with their replies to the       *)
(* tweet.  Every awaited step may raise.                                   *)
(***************************************************************************)
Handlers == {"create_project", "handle_mention", "process_deployment"}

NoProject == [present |-> FALSE, status |-> "none", files |-> "empty"]
BuildingProject == [present |-> TRUE, status |-> "building", files |-> "empty"]

AtRest == [phase |-> "rest", idx |-> 0]

\* create_project with the 'complete' frame broadcast before the commit.
CreateProjectStepsNoticeFirst ==
    <<"add", "notify_progress", "generate", "notify_progress", "set_files",
      "notify_progress", "deploy", "notify_success", "commit", "track_usage">>

\* The try block of create_project, in the order of the code: the Project
\* is added to the session; frame 'generating'; generate_project; frame
\* 'generated'; the files are set; frame 'deploying'; deploy; status live
\* and commit; frame 'complete'; track_usage.
CreateProjectSteps ==
    <<"add", "notify_progress", "generate", "notify_progress", "set_files",
      "notify_progress", "deploy", "commit", "notify_success", "track_usage">>

\* The try block of handle_mention: post_building; create_build;
\* update_status generating; generate; update_status saving;
\* complete_build; post_complete.
HandleMentionSteps ==
    <<"notify_building", "insert", "status_generating", "generate",
      "status_saving", "save_deployed", "notify_success">>

\* The try block of process_deployment: the building reply; the INSERT;
\* messages.create and the parse; the UPDATE; the ready reply.
ProcessDeploymentSteps ==
    <<"notify_building", "insert", "generate", "save_deployed",
      "notify_success">>

Steps(h) ==
    CASE h = "create_project" -> CreateProjectSteps
      [] h = "handle_mention" -> HandleMentionSteps
      [] h = "process_deployment" -> ProcessDeploymentSteps

\* The steps of the except block: create_project commits the failure and
\* broadcasts it; handle_mention calls update_status, whose own failure it
\* swallows, and post_failed; process_deployment marks the mention only.
ExceptSteps(h) ==
    CASE h = "create_project" -> <<"commit_failed", "notify_failed">>
      [] h = "handle_mention" -> <<"status_failed", "notify_failed">>
      [] h = "process_deployment" -> <<>>

\* The step the handler is at.
StepAt ==
    IF nAt.phase = "try" THEN Steps(nPath)[nAt.idx]
    ELSE ExceptSteps(nPath)[nAt.idx]

StepsLeft ==
    \/ nAt.phase = "try" /\ nAt.idx <= Len(Steps(nPath))
    \/ nAt.phase = "except" /\ nAt.idx <= Len(ExceptSteps(nPath))

\* What a notify step sends.
NoticeOf(step) ==
    CASE step = "notify_progress" -> "progress"
      [] step = "notify_building" -> "building"
      [] step = "notify_success" -> "success"
      [] step = "notify_failed" -> "failed"

IsNotify(step) ==
    step \in {"notify_progress", "notify_building", "notify_success",
              "notify_failed"}

\* The steps that cannot raise: assignments to the Project of the session.
NeverRaises(step) == step \in {"add", "set_files"}

\* The committed Project after a step that did not raise.
RowAfter(step) ==
    CASE step = "insert" -> BuildingProject
      [] step = "commit" -> [nPending EXCEPT !.status = "live"]
      [] step = "commit_failed" -> [nPending EXCEPT !.status = "failed"]
      [] step = "status_generating" -> [nRow EXCEPT !.status = "generating"]
      [] step = "status_saving" -> [nRow EXCEPT !.status = "saving"]
      [] step = "status_failed" ->
            IF nRow.present THEN [nRow EXCEPT !.status = "failed"] ELSE nRow
      [] step = "save_deployed" ->
            [nRow EXCEPT !.status = "deployed", !.files = nResult]
      [] OTHER -> nRow

\* The Project of the session of create_project after a step.
PendingAfter(step) ==
    CASE step = "add" -> BuildingProject
      [] step = "set_files" -> [nPending EXCEPT !.files = nResult]
      [] OTHER -> nPending

\* A build is requested: over HTTP, by a mention the worker polls, by a
\* mention the admin router processes.
NotifyStart(h) ==
    /\ nPath = "none"
    /\ nRuns < MaxRuns
    /\ nRuns' = nRuns + 1
    /\ nPath' = h
    /\ nAt' = [phase |-> "try", idx |-> 1]
    /\ nRow' = NoProject
    /\ nPending' = NoProject
    /\ nResult' = "none"
    /\ nNotices' = <<>>

\* The handler goes on to its next step.
NotifyAdvance == nAt' = [nAt EXCEPT !.idx = @ + 1]

\* A step that is no notice runs to its end.
NotifyStep ==
    /\ nPath # "none"
    /\ StepsLeft
    /\ ~IsNotify(StepAt)
    /\ nRow' = RowAfter(StepAt)
    /\ nPending' = PendingAfter(StepAt)
    /\ IF StepAt = "generate"
       THEN \E f \in GeneratedFiles : nResult' = f
       ELSE UNCHANGED nResult
    /\ NotifyAdvance
    /\ UNCHANGED <<nPath, nNotices, nRuns>>

\* A notice: a frame to the subscribers of the build or a reply to the
\* tweet.  It is sent, or it is not sent and nothing is raised (no
\* subscriber; Twitter or the reply cap refused the reply).
NotifySend ==
    /\ nPath # "none"
    /\ StepsLeft
    /\ IsNotify(StepAt)
    /\ \/ nNotices' = Append(nNotices, NoticeOf(StepAt))
       \/ UNCHANGED nNotices
    /\ NotifyAdvance
    /\ UNCHANGED <<nPath, nRow, nPending, nResult, nRuns>>

\* A step raises: in the try block the except block is entered, in the
\* except block the handler is left; the failed update_status of
\* handle_mention is swallowed.
NotifyRaise ==
    /\ nPath # "none"
    /\ StepsLeft
    /\ ~NeverRaises(StepAt)
    /\ nAt' = IF nAt.phase = "try" THEN [phase |-> "except", idx |-> 1]
              ELSE IF StepAt = "status_failed" THEN [nAt EXCEPT !.idx = @ + 1]
              ELSE [nAt EXCEPT !.idx = Len(ExceptSteps(nPath)) + 1]
    /\ UNCHANGED <<nPath, nRow, nPending, nResult, nNotices, nRuns>>

\* The handler returns or is left by its exception.
NotifyReturn ==
    /\ nPath # "none"
    /\ ~StepsLeft
    /\ nPath' = "none"
    /\ nAt' = AtRest
    /\ UNCHANGED <<nRow, nPending, nResult, nNotices, nRuns>>

\* What the builds leave alone.
NotNotify ==
    <<dbVars, replies, histVars, envVars, webhookVars, workerVars, adminVars,
      apiVars, opsVars, limitVars, modVars, parseVars, wsVars, readyVars,
      destroyVars, statusVars, workerModVars, dedupVars, sweepVars>>

(***************************************************************************)
(* Initial states and specifications.                                      *)
(***************************************************************************)
InitShared ==
    /\ projects = <<>>
    /\ builds = <<>>
    /\ replies = [t \in Tweets |-> 0]
    /\ aiCalls = {}
    /\ promptChecks = {}
    /\ nPosted = 0
    /\ restarts = 0

InitWebhookVars == whTasks = [k \in TaskIds |-> WhIdle]

InitWorkerVars ==
    /\ wpc = "start"
    /\ wQueue = <<>>
    /\ wCur = 0
    /\ wSlug = 0
    /\ wResult = "none"
    /\ lastMentionId = 0
    /\ redisLast = 0
    /\ processed = {}
    /\ rateCount = [a \in {1} |-> 0]

InitAdminVars ==
    /\ adMentions = <<>>
    /\ adProcessed = {}
    /\ memReplyCounts = [t \in Tweets |-> 0]
    /\ replyCount = [t \in Tweets |-> 0]
    /\ redisUp = TRUE
    /\ adTasks = [k \in AdTaskIds |-> AdIdle]

InitApiVars == apiTasks = [k \in ApiTaskIds |-> ApiIdle]

InitOpsVars ==
    /\ aged = {}
    /\ sweeps = 0

InitLimitVars ==
    /\ rlCount = 0
    /\ rlTtl = -2
    /\ rlReqs = [k \in RlReqIds |-> RlIdle]
    /\ rlServed = 0

InitModVars ==
    /\ mPrompt = <<>>
    /\ mPieces = 0
    /\ mResult = NoResult

InitParseVars ==
    /\ pText = <<>>
    /\ pPieces = 0
    /\ pWrap = "none"
    /\ pInner = <<>>
    /\ pOut = NoOutput
    /\ pRow = NewRow

InitWsVars ==
    /\ wsConn = [key |-> FALSE, list |-> <<>>]
    /\ wsSubs = [s \in Subs |-> [state |-> "none", recv |-> <<>>, joined |-> 0]]
    /\ wsCast = CastIdle
    /\ wsFrame = 0
    /\ wsRaised = FALSE

InitReadyVars == readyReplies = [t \in Tweets |-> 0]

InitDestroyVars ==
    /\ flyMachines = {}
    /\ dRows = [s \in Slugs |-> NoRow]
    /\ dDeployed = 0
    /\ dLast = NoOperation

InitStatusVars == bsLast = NoStatus

InitSweepVars == rebuilding = {}

InitWorkerModVars == mWorkerResult = NoVerdict

InitNotifyVars ==
    /\ nPath = "none"
    /\ nAt = AtRest
    /\ nRow = NoProject
    /\ nPending = NoProject
    /\ nResult = "none"
    /\ nNotices = <<>>
    /\ nRuns = 0

InitDedupVars ==
    /\ dedupAge = [t \in DedupIds |-> -1]
    /\ dedupTtl = -2

Init ==
    /\ InitShared
    /\ InitWebhookVars
    /\ InitWorkerVars
    /\ InitAdminVars
    /\ InitApiVars
    /\ InitOpsVars
    /\ InitLimitVars
    /\ InitModVars
    /\ InitParseVars
    /\ InitWsVars
    /\ InitReadyVars
    /\ InitDestroyVars
    /\ InitStatusVars
    /\ InitWorkerModVars
    /\ InitNotifyVars
    /\ InitDedupVars
    /\ InitSweepVars

Next ==
    \/ MentionPosted
    \/ WorkerStart
    \/ WorkerPoll
    \/ WorkerNext
    \/ WorkerDedup
    \/ WorkerRateLimit
    \/ WorkerModerate
    \/ WorkerReplyBuilding
    \/ WorkerCreateBuild
    \/ WorkerStatusGenerating
    \/ WorkerGenerate
    \/ WorkerStatusSaving
    \/ WorkerCompleteBuild
    \/ WorkerReplyDone
    \/ WorkerStatusFailed
    \/ WorkerReplyFailed
    \/ WorkerAdvance
    \/ WorkerRestart
    \/ HourPasses
    \/ CleanupFailedDeployments

Spec == Init /\ [][Next]_vars

\* The worker started on a database that holds the Project of an earlier
\* mention (tweet -1, older than every mention of Tweets and not returned
\* by the mentions timeline any more), built and deployed under slug s.
EarlierProject(s) ==
    [slug |-> s, tweet |-> -1, status |-> "deployed", files |-> "clean",
     ver |-> 1, checked |-> FALSE]

InitCollide ==
    /\ \E s \in Slugs : projects = <<EarlierProject(s)>>
    /\ builds = <<[status |-> "complete", error |-> "none"]>>
    /\ replies = [t \in Tweets |-> 0]
    /\ aiCalls = {}
    /\ promptChecks = {}
    /\ nPosted = 0
    /\ restarts = 0
    /\ InitWebhookVars
    /\ InitWorkerVars
    /\ InitAdminVars
    /\ InitApiVars
    /\ InitOpsVars
    /\ InitLimitVars
    /\ InitModVars
    /\ InitParseVars
    /\ InitWsVars
    /\ InitReadyVars
    /\ InitDestroyVars
    /\ InitStatusVars
    /\ InitWorkerModVars
    /\ InitNotifyVars
    /\ InitDedupVars
    /\ InitSweepVars

SpecCollide == InitCollide /\ [][Next]_vars

NextWebhook ==
    \/ MentionPosted
    \/ \E t \in Tweets : NotifierWebhook(t)
    \/ \E k \in TaskIds : WhReplyBuilding(k)
    \/ \E k \in TaskIds : WhInsertProject(k)
    \/ \E k \in TaskIds : WhGenerate(k)
    \/ \E k \in TaskIds : WhUpdateProject(k)
    \/ \E k \in TaskIds : WhReplyDone(k)
    \/ \E k \in TaskIds : WhReplyFailed(k)

SpecWebhook == Init /\ [][NextWebhook]_vars

NextAdmin ==
    \/ MentionPosted
    \/ FetchTwitterMentions
    \/ \E t \in Tweets : TriggerDeploy(t)
    \/ \E t \in Tweets : ForceReply(t)
    \/ \E k \in AdTaskIds : AdStart(k)
    \/ \E k \in AdTaskIds : AdReplyCheck(k)
    \/ \E k \in AdTaskIds : AdReplyPost(k)
    \/ \E k \in AdTaskIds : AdReplyIncrement(k)
    \/ \E k \in AdTaskIds : AdInsertProject(k)
    \/ \E k \in AdTaskIds : AdGenerate(k)
    \/ \E k \in AdTaskIds : AdUpdateProject(k)
    \/ AdminRestart
    \/ RedisToggle

SpecAdmin == Init /\ [][NextAdmin]_vars

NextApi ==
    \/ \E p \in Prompts : CreateProject(p)
    \/ \E k \in ApiTaskIds : ApiModeratePrompt(k)
    \/ \E k \in ApiTaskIds : ApiGenerate(k)
    \/ \E k \in ApiTaskIds : ApiDeploy(k)
    \/ \E k \in ApiTaskIds : ApiTrackUsage(k)
    \/ \E s \in Slugs : RefineProject(s)
    \/ \E k \in ApiTaskIds : DoRefine(k)
    \/ \E s \in Slugs : RebuildProject(s)
    \/ \E k \in ApiTaskIds : DoRebuild(k)

SpecApi == Init /\ [][NextApi]_vars

\* The API together with the passing of time and the cleanup pass.
NextSweep ==
    \/ NextApi
    \/ HourPasses
    \/ CleanupFailedDeployments

SpecSweep == Init /\ [][NextSweep]_vars

NextDedup ==
    \/ \E t \in DedupIds : DedupAdd(t) /\ UNCHANGED NotDedup
    \/ DedupTick /\ UNCHANGED NotDedup

SpecDedup == Init /\ [][NextDedup]_vars

NextNotify ==
    \/ \E h \in Handlers : NotifyStart(h) /\ UNCHANGED NotNotify
    \/ NotifyStep /\ UNCHANGED NotNotify
    \/ NotifySend /\ UNCHANGED NotNotify
    \/ NotifyRaise /\ UNCHANGED NotNotify
    \/ NotifyReturn /\ UNCHANGED NotNotify

SpecNotify == Init /\ [][NextNotify]_vars

NextLimit ==
    \/ RlArrive /\ UNCHANGED NotLimit
    \/ \E k \in RlReqIds : RlIncr(k) /\ UNCHANGED NotLimit
    \/ \E k \in RlReqIds : RlExpire(k) /\ UNCHANGED NotLimit
    \/ \E k \in RlReqIds : RlTtl(k) /\ UNCHANGED NotLimit
    \/ \E k \in RlReqIds : RlCallNext(k) /\ UNCHANGED NotLimit
    \/ RlTick /\ UNCHANGED NotLimit

SpecLimit == Init /\ [][NextLimit]_vars

NextModerator ==
    \/ \E n \in DOMAIN Pieces : ModAppend(n) /\ UNCHANGED NotModerator
    \/ ModCheckPrompt /\ UNCHANGED NotModerator
    \/ ModWorkerCheckPrompt /\ UNCHANGED NotModerator

SpecModerator == Init /\ [][NextModerator]_vars

NextParse ==
    \/ \E n \in DOMAIN TextPieces : ParseAppend(n) /\ UNCHANGED NotParse
    \/ \E kind \in {"fence", "double"} : ParseWrap(kind) /\ UNCHANGED NotParse
    \/ ParseResponse /\ UNCHANGED NotParse
    \/ ParseGenerate /\ UNCHANGED NotParse
    \/ ParseQuickBuild /\ UNCHANGED NotParse
    \/ ParseRegenerate /\ UNCHANGED NotParse
    \/ ParseProcessDeployment /\ UNCHANGED NotParse
    \/ ParseRefine /\ UNCHANGED NotParse
    \/ RefineFailed /\ UNCHANGED NotParse

SpecParse == Init /\ [][NextParse]_vars

NextWs ==
    \/ \E s \in Subs : WsConnect(s) /\ UNCHANGED NotWs
    \/ \E s \in Subs : WsStall(s) /\ UNCHANGED NotWs
    \/ \E s \in Subs : WsBreak(s) /\ UNCHANGED NotWs
    \/ \E s \in Subs : WsDisconnect(s) /\ UNCHANGED NotWs
    \/ BroadcastStart /\ UNCHANGED NotWs
    \/ BroadcastNext /\ UNCHANGED NotWs
    \/ BroadcastSent /\ UNCHANGED NotWs

SpecWs == Init /\ [][NextWs]_vars

NextDestroy ==
    \/ \E s \in Slugs : DeployProject(s) /\ UNCHANGED NotDestroy
    \/ \E s \in Slugs : InsertUndeployed(s) /\ UNCHANGED NotDestroy
    \/ \E id \in MachineIds : MachineGone(id) /\ UNCHANGED NotDestroy
    \/ \E s \in Slugs : DeleteProject(s) /\ UNCHANGED NotDestroy
    \/ \E expired \in SUBSET Slugs :
          CleanupExpiredProjects(expired) /\ UNCHANGED NotDestroy

SpecDestroy == Init /\ [][NextDestroy]_vars

\* The worker with the read API at its side.
NextStatus ==
    \/ Next
    \/ \E b \in BuildKeys : GetBuildStatusById(b) /\ UNCHANGED NotStatus
    \/ \E s \in Slugs : GetBuildStatusBySlug(s) /\ UNCHANGED NotStatus

SpecStatus == Init /\ [][NextStatus]_vars


(***************************************************************************)
(* Properties.                                                             *)
(***************************************************************************)
BuildStatuses == {"queued", "generating", "saving", "deploying", "complete",
                  "failed"}

TerminalStatuses == {"complete", "failed"}

\* The order the Build state machine prescribes.
LegalBuildStep(a, b) ==
    \/ a = b
    \/ a = "queued" /\ b \in {"generating", "failed"}
    \/ a = "generating" /\ b \in {"saving", "deploying", "failed"}
    \/ a \in {"saving", "deploying"} /\ b \in {"complete", "failed"}

\* The reply_to_tweet calls that have posted and not yet returned.
AdSent == {k \in AdTaskIds : adTasks[k].pc \in {"b_incr", "d_incr", "f_incr"}}

\* The do_refine tasks running on the Project of slug s.
RefinesInFlight(s) ==
    {k \in ApiTaskIds : apiTasks[k].pc = "refine" /\ apiTasks[k].slug = s}

\* C1: on every intake path the number of replies the service has posted
\* to a tweet never exceeds the cap of 2.  Stated for the notifier webhook
\* path (SpecWebhook).
C1_RepliesWithinCap ==
    \A t \in Tweets : replies[t] <= MAX_REPLIES_PER_TWEET

\* C2: under concurrent reply_to_tweet attempts for one tweet the persisted
\* reply counter (Redis, or the in-memory fallback) never exceeds the cap
\* of 2, and so at most 2 attempts have sent (SpecAdmin).
C2_CounterWithinCap ==
    \A t \in Tweets :
        /\ replyCount[t] <= MAX_REPLIES_PER_TWEET
        /\ memReplyCounts[t] <= MAX_REPLIES_PER_TWEET

\* C3: with Redis unreachable the reply cap fails closed: no reply is ever
\* sent by a reply_to_tweet call that could not read the count from Redis
\* (SpecAdmin).
C3_CapFailsClosed ==
    \A k \in AdSent : adTasks[k].src = "redis"

\* C4: intake called twice with the same tweet id creates exactly one
\* Project for that tweet, so no tweet ever has two Projects.  Stated for
\* the notifier webhook path (SpecWebhook).
C4_OneProjectPerTweet ==
    \A t \in Tweets : Cardinality(ProjectsOfTweet(t)) <= 1

\* C5: the 'already processed' record of a tweet survives a process
\* restart: a tweet whose processing has created a Project is still known
\* to the admin mention fetch, which therefore will not process it again
\* (SpecAdmin).
C5_ProcessedRecordSurvives ==
    \A i \in DOMAIN projects :
        projects[i].tweet \in adProcessed \cup DOMAIN adMentions

\* C6: two refine tasks never run concurrently on one Project, and no
\* refine task in flight holds a snapshot of files older than the files
\* the Project has now (SpecApi).
C6_RefineSerialized ==
    \A s \in Slugs :
        /\ Cardinality(RefinesInFlight(s)) <= 1
        /\ \A k \in RefinesInFlight(s) :
              apiTasks[k].base = projects[ProjectOfSlug(s)].ver

\* C7: once a Build is complete or failed, no step changes its status or
\* its error message (Spec).
C7_TerminalBuildImmutable ==
    [][\A i \in DOMAIN builds :
          builds[i].status \in TerminalStatuses => builds'[i] = builds[i]]_vars

\* C8: a Build only ever holds a status of the state machine, and every
\* change of its status is a step queued -> generating -> saving/deploying
\* -> complete or a step from a non-terminal status to failed (Spec).
C8_BuildStateMachine ==
    [][/\ \A i \in DOMAIN builds' : builds'[i].status \in BuildStatuses
       /\ \A i \in DOMAIN builds :
             LegalBuildStep(builds[i].status, builds'[i].status)]_vars

\* C9: every call of the generation provider was preceded, on its path, by
\* the prompt moderation check of that prompt, and the check allowed it.
\* Stated for the notifier webhook path (SpecWebhook).
C9_PromptCheckedBeforeGeneration ==
    \A c \in aiCalls : c \in promptChecks /\ ApiCheckPrompt(c.prompt)

\* C10: a Project is marked deployed or live only with files on which the
\* output moderation check has run and passed.  Stated for the polling
\* worker path (Spec).
C10_DeployedFilesChecked ==
    \A i \in DOMAIN projects :
        projects[i].status \in {"deployed", "live"} => projects[i].checked


\* C11: when check_code rejects the generated files in create_project, the
\* step that records the rejection writes a Project that holds none of the
\* rejected files (its files are the empty '{}' it was created with) and
\* is failed, not live, with its Build failed and the reason in
\* error_message; no other row changes (SpecApi).
C11_RejectedFilesNotPersisted ==
    [][\A k \in ApiTaskIds :
          (apiTasks[k].pc = "generate" /\ apiTasks'[k].result = "code_blocked")
          => /\ DOMAIN projects' = DOMAIN projects \cup {NewId}
             /\ projects'[NewId].files = "empty"
             /\ projects'[NewId].status = "failed"
             /\ builds'[NewId] = [status |-> "failed", error |-> "message"]
             /\ \A j \in DOMAIN projects : projects'[j] = projects[j]]_vars

\* A create_project request has answered 400 for rejected files, and its
\* Project is failed with no files.
C11_Witness ==
    \E k \in ApiTaskIds :
        /\ apiTasks[k].result = "code_blocked"
        /\ \E i \in DOMAIN projects :
              /\ projects[i].status = "failed"
              /\ projects[i].files = "empty"
              /\ builds[i].status = "failed"

\* C12: when deployer.deploy times out or fails during create_project, the
\* step that records the failure leaves the Project failed (never live)
\* and the Build failed with a non-empty error message (SpecApi).
C12_DeployFailureRecorded ==
    [][\A k \in ApiTaskIds :
          (/\ apiTasks[k].pc = "deploy"
           /\ apiTasks'[k].pc = "end"
           /\ DOMAIN projects' # DOMAIN projects)
          => /\ projects'[NewId].status = "failed"
             /\ builds'[NewId].status = "failed"
             /\ builds'[NewId].error \notin {"none", "empty"}]_vars

\* C13: a Build that has been in a non-terminal status for more than the
\* timeout of one hour is moved to failed by the reconciliation pass
\* cleanup_failed_deployments (Spec).
C13_StuckBuildSwept ==
    [][sweeps' # sweeps
       => \A i \in DOMAIN builds :
             (i \in aged /\ builds[i].status \notin TerminalStatuses)
             => builds'[i].status = "failed"]_vars

\* C14: an error or crash between fetching a mention and advancing the
\* marker leads at most to re-processing: when a later poll skips a
\* mention as already processed and moves the marker past it, the mention
\* has a build recorded or has been answered (Spec).
C14_NoSilentDrop ==
    [][(wpc = "dedup" /\ wpc' = "advance")
       => ProjectsOfTweet(wCur) # {} \/ replies[wCur] > 0]_vars

\* The positions of the worker inside handle_mention.
HandleMentionPcs ==
    {"dedup", "rate", "moderate", "reply_building", "create",
     "status_generating", "generate", "status_saving", "complete",
     "reply_done", "status_failed", "reply_failed"}

\* C15: no failure inside handle_mention escapes it: from a position
\* inside handle_mention the worker never falls back to the sleep of the
\* run loop, which abandons the remaining mentions of the cycle (Spec).
C15_NoEscapeFromHandleMention ==
    [][(wpc \in HandleMentionPcs) => (wpc' # "idle")]_vars

\* C16: the poll loop does not wait for a build: while a build is
\* generating, the loop can start the next mention of the cycle, or, with
\* none left, the next poll (Spec).
C16_PollNotBlockedByBuild ==
    wpc = "generate"
    => IF wQueue # <<>> THEN ENABLED WorkerNext ELSE ENABLED WorkerPoll

\* C17: with a limit of RATE_LIMIT_PER_HOUR requests per window, a request
\* counted above the limit is answered 429 with a reset time greater than 0,
\* and a request counted within the limit of its window is allowed, that
\* is, handed to its handler and not answered 429 (SpecLimit).
C17_RejectedWithPositiveReset ==
    \A k \in RlReqIds :
        (rlReqs[k].pc = "end" /\ rlReqs[k].count > 0)
        => IF rlReqs[k].count > RATE_LIMIT_PER_HOUR
           THEN rlReqs[k].status = "429" /\ rlReqs[k].reset > 0
           ELSE rlReqs[k].status # "429" /\ rlReqs[k].calls > 0

\* C18: when Redis fails at the rate-limit step of handle_mention, the
\* mention is let through to the moderation step: the step is left without
\* a new count only towards "moderate" (Spec).
C18_WorkerLimiterFailsOpen ==
    [][(wpc = "rate" /\ wpc' # "rate" /\ rateCount' = rateCount
            /\ restarts' = restarts)
       => (wpc' = "moderate")]_vars

\* C19: every response of dispatch, allowed or rejected, carries the
\* X-RateLimit-Remaining and X-RateLimit-Reset headers (SpecLimit).
C19_EveryResponseHasQuotaHeaders ==
    \A k \in RlReqIds : rlReqs[k].pc = "end" => rlReqs[k].hdr

\* The prompt matches one of the patterns, under the flags check_prompt
\* passes to re.search.
Matches(patterns, prompt) ==
    \E n \in DOMAIN patterns : re_search(patterns[n], prompt)

\* C20: check_prompt returns allowed = false with flag 'injection' for a
\* prompt that matches an injection pattern, allowed = false with flag
\* 'dangerous' for a prompt that matches no injection pattern but a
\* dangerous one, and allowed = true for a prompt that matches none
\* (SpecModerator).
C20_CheckPromptVerdict ==
    mResult # NoResult
    => IF Matches(INJECTION_PATTERNS, mPrompt)
       THEN ~mResult.allowed /\ mResult.flags = <<"injection">>
       ELSE IF Matches(DANGEROUS_PATTERNS, mPrompt)
       THEN ~mResult.allowed /\ mResult.flags = <<"dangerous">>
       ELSE mResult.allowed

\* The files of the value are a dict that holds the file its entry point
\* names (index.html when it names none).
HoldsEntryPoint(v) ==
    /\ Has(v, FILES)
    /\ IsDict(v.m[FILES])
    /\ Get(v, ENTRY_POINT, JStr(INDEX_HTML)).k = "str"
    /\ Get(v, ENTRY_POINT, JStr(INDEX_HTML)).s \in DOMAIN v.m[FILES].m

\* C21: whatever the model's text, _parse_response, the parsing of
\* AIBuilder.generate and that of quick_build return, without raising, a
\* result whose files are not empty and hold its entry point (SpecParse).
C21_ParserAlwaysDeployable ==
    pOut.who \in {"parse_response", "generate", "quick_build"}
    => ~pOut.raised /\ HoldsEntryPoint(pOut.v)

\* Two results hold the same file-set: the same files, the same entry point.
SameFileSet(a, b) ==
    /\ Has(a, FILES) /\ Has(b, FILES)
    /\ a.m[FILES] = b.m[FILES]
    /\ Get(a, ENTRY_POINT, JStr(INDEX_HTML)) = Get(b, ENTRY_POINT, JStr(INDEX_HTML))

\* C22: a file-set wrapped in a json fence, or given as the entry file of
\* an outer file-set, is parsed back to the original file-set by
\* _parse_response, regenerate_project and AIBuilder.generate (SpecParse).
C22_WrappedFileSetRoundTrips ==
    (pWrap # "none"
        /\ pOut.who \in {"parse_response", "regenerate_project", "generate"})
    => ~pOut.raised /\ SameFileSet(pOut.v, json_loads(pInner).v)

\* C23: with prose around a file-set whose file holds braces inside its
\* string, process_deployment and _parse_response find the outer object
\* and return the file-set with the whole content (SpecParse).
C23_BracesInsideStrings ==
    (/\ pText \in {<<"prose">> \o BraceFileSetText,
                   BraceFileSetText \o <<"prose">>,
                   <<"prose">> \o BraceFileSetText \o <<"prose">>}
     /\ pOut.who \in {"process_deployment", "parse_response"})
    => ~pOut.raised /\ pOut.v = json_loads(BraceFileSetText).v

\* C24: a subscriber whose send does not complete never blocks the
\* broadcaster: whenever broadcast_build_update waits in ws.send_text, the
\* call can go on (to its next subscriber or to its end), so the build that
\* awaits it goes on too.
C24_BroadcasterNeverBlocked ==
    wsCast.pc = "send" => ENABLED BroadcastSent

\* The frames that a subscriber connected since frame count `from` is owed
\* once `upto` frames were broadcast.
FramesOwed(from, upto) == [i \in 1..(upto - from) |-> from + i]

\* C26: a subscriber that stays connected receives every frame broadcast
\* after it connected, in the order of the broadcasts: between two
\* broadcasts, the frames it holds past its connection are exactly those
\* broadcast since, in order -- whatever the other subscribers did.
C26_EveryFrameInOrder ==
    \A s \in Subs :
        (wsCast.pc = "idle" /\ wsSubs[s].state = "open")
        => SelectSeq(wsSubs[s].recv, LAMBDA f : f > wsSubs[s].joined)
           = FramesOwed(wsSubs[s].joined, wsFrame)

\* C25: for one source tweet the 'Your app is ready' reply is posted at
\* most once, however often completion is reported for it: by
\* process_deployment, by process_deployment run again, by force_reply.
C25_ReadyReplyAtMostOnce ==
    \A t \in Tweets : readyReplies[t] <= 1

\* C27: a Project whose deployment status is deployed or live has its
\* entry point among the keys of its files, after the initial build, a
\* refine (successful or failed), a rebuild or a quick build (SpecParse).
C27_DeployedHoldsEntryPoint ==
    pRow.status \in {"deployed", "live"}
    => /\ IsDict(pRow.files)
       /\ pRow.entry_point.k = "str"
       /\ pRow.entry_point.s \in DOMAIN pRow.files.m

\* C28: destroy on a deployment that is gone returns normally (Fly's 404 is
\* not an error); after a destroy that Fly answered the machine is gone,
\* whether it was there or not, so a second call ends as the first; and
\* delete_project, when its row is there and its commit goes through,
\* answers deleted whatever became of the deployment.
C28_DestroyNotFoundIsSuccess ==
    /\ \A c \in dLast.calls :
          c.answer \in {"200", "404"}
          => ~c.raised /\ c.id \notin flyMachines
    /\ (dLast.op = "delete_project" /\ dLast.committed)
       => dLast.result = "deleted"

\* delete_project deleted a Project whose machine was already gone: its
\* destroy call got Fly's 404.
C28_Witness ==
    /\ dLast.op = "delete_project"
    /\ dLast.result = "deleted"
    /\ \E c \in dLast.calls : c.answer = "404"

\* The lookup of the progress of a build by its status.
ProgressLookup(status) ==
    CASE status = "queued" -> 10
      [] status = "generating" -> 40
      [] status = "saving" -> 80
      [] status = "complete" -> 100
      [] status = "failed" -> 0

\* C29: the answer of get_build_status carries the progress that the
\* lookup gives for its status (queued 10, generating 40, saving 80,
\* complete 100, failed 0), whether the key was a build id or a slug.
C29_ProgressByLookup ==
    bsLast.status \in {"queued", "generating", "saving", "complete", "failed"}
    => bsLast.progress = ProgressLookup(bsLast.status)

\* C30: when the dedup store cannot be reached the check of handle_mention
\* fails open: a mention that is not known as processed leaves the dedup
\* step, also without having been recorded, only towards its processing
\* (the rate-limit step), never back to the sleep of the run loop, from
\* where the next poll fetches it again (Spec).
C30_DedupFailsOpen ==
    [][(wpc = "dedup" /\ wpc' # "dedup" /\ wCur \notin processed
            /\ processed' = processed /\ restarts' = restarts)
       => (wpc' = "rate")]_vars

\* C31: within one poll cycle the mentions are handled oldest first (the
\* mention taken from the cycle is older than all that remain), and when
\* handle_mention has returned for a mention the stored marker
\* twitter:last_mention_id is that mention.
C31_OldestFirstMarkerStored ==
    [][/\ (wpc = "next" /\ wpc' = "dedup"
              => \A i \in 1..Len(wQueue') : wCur' < wQueue'[i])
       /\ (wpc = "advance" /\ wpc' # "advance" /\ restarts' = restarts
              => redisLast' = wCur)]_vars

\* C32: cleanup_failed_deployments never marks failed a Project that
\* entered 'building' less than an hour ago and is still building.
C32_RecentBuildingNotSwept ==
    [][sweeps' # sweeps
          => \A i \in rebuilding :
                projects[i].status = "building"
                   => projects'[i].status # "failed"]_vars

\* C33: every member of twitter:processed is removed at most one retention
\* window after it was added: no member is older than RetentionTicks.
C33_DedupEntryExpires ==
    \A t \in DedupIds : dedupAge[t] <= RetentionTicks

\* C34: when a send of a broadcast failed, at the end of that broadcast the
\* subscriber it failed for is out of the registry, and every other
\* subscriber that was connected before the broadcast and still is holds
\* the frame.
C34_FailedDroppedOthersServed ==
    [][(wsCast.pc = "loop" /\ wsCast'.pc = "idle" /\ wsCast.disc # <<>>)
          => /\ \A s \in Subs :
                   InList(wsCast.disc, s) => ~InList(wsConn'.list, s)
             /\ \A s \in Subs :
                   (/\ ~InList(wsCast.disc, s)
                    /\ wsSubs[s].state = "open"
                    /\ wsSubs[s].joined < wsFrame)
                   => InList(wsSubs[s].recv, wsFrame)]_vars

\* C35: the failure handling of the build of one mention leaves the
\* Projects created for other mentions, and their Builds, as they are.
C35_FailureStaysWithItsMention ==
    [][(wpc = "status_failed" /\ wpc' = "reply_failed")
          => \A i \in DOMAIN projects :
                projects[i].tweet # wCur
                   => projects'[i] = projects[i] /\ builds'[i] = builds[i]]_vars

\* C36: for every request, dispatch invokes the downstream handler at most
\* once.
C36_HandlerCalledAtMostOnce ==
    \A k \in RlReqIds : rlReqs[k].calls <= 1

\* C37: a rate-limit counter that is in the store has an expiry, once no
\* request is between its INCR and its EXPIRE: the key is never left
\* without a TTL, so the window of a limited client ends.
C37_CounterHasExpiry ==
    (rlCount > 0 /\ \A k \in RlReqIds : rlReqs[k].pc # "expire")
        => rlTtl >= 1

\* C38: broadcast_build_update never raises, whatever the subscribers of
\* the build do while it awaits a send.
C38_BroadcastNeverRaises == ~wsRaised

\* The Project is in the database with the files the generation returned
\* and a status of deployed or live.
PersistedDeployed ==
    /\ nRow.present
    /\ nRow.status \in {"deployed", "live"}
    /\ nRow.files \in GeneratedFiles
    /\ nRow.files = nResult

C40_ModeratorsAgree ==
    (mResult # NoResult /\ mWorkerResult # NoVerdict)
        => mResult.allowed = mWorkerResult.allowed

=============================================================================
